---- MODULE Spec2Model ----
(***************************************************************************)
(* Model of the replay-corpus analysis engine of SlippiStats                *)
(* (src/main.js: analyzeReplays, processSingleReplay, the content cache,    *)
(* the shared cancellation flag and the progress channel).                  *)
(*                                                                          *)
(* Conventions.                                                             *)
(*  - A JavaScript string that the code takes apart (tags, filters, match   *)
(*    identifiers) is a sequence of one-character strings; a string that    *)
(*    the code only compares or uses as a key is a TLA+ string.             *)
(*  - A JavaScript number that may be missing is an integer with the        *)
(*    sentinels JsUndefined and JsNaN below the values the model uses.      *)
(*  - Durations are kept in frames: total_seconds of the code is            *)
(*    frames / 60, and Math.floor(total_seconds) is frames \div 60.         *)
(*  - One action is one synchronous stretch of the event loop: the code     *)
(*    between two `await`s runs to completion before any other handler.     *)
(***************************************************************************)
EXTENDS Integers, Sequences, FiniteSets, TLC

VARIABLES
  files,            \* the sorted list of replay files of the folder (glob.sync(...).sort())
  disk,             \* the cache document replayCache.json of the folder
  fsMode,           \* the folder: "ok" | "nolist" (cannot be listed) | "nowrite" (read-only)
  cancelRequested,  \* the module-level cancellation flag
  pc,               \* "idle" | "await" (suspended at setImmediate before file i)
  opts,             \* options of the analyze() call in flight
  i,                \* loop index of the call in flight (0-based, as in the code)
  cache,            \* the in-memory cache object of the call in flight
  agg,              \* the accumulators of the call in flight
  events,           \* messages sent on the progress and match-log channels by this call
  decodes,          \* file indices handed to the external decoder by this call
  writes,           \* number of writeCache calls of this call
  hist,             \* bookkeeping about cancel() calls relative to this call
  result,           \* what the analyze-replays handler returned last
  prev,             \* snapshot of the previous completed call
  runs,             \* number of analyze() calls started
  psrIn,            \* input of a single call of processSingleReplay
  psrOut            \* its output

vars == <<files, disk, fsMode, cancelRequested, pc, opts, i, cache, agg, events,
          decodes, writes, hist, result, prev, runs, psrIn, psrOut>>

----------------------------------------------------------------------------
(* Bounds of the model *)

MaxFiles == 2
MaxRuns == 2
MaxCancels == 2

----------------------------------------------------------------------------
(* JavaScript values *)

JsUndefined == -1
JsNaN == -2
JsNull == -3

\* String.prototype.toLowerCase on one character of the model's alphabet
LowerChar(c) ==
  CASE c = "A" -> "a"
    [] c = "B" -> "b"
    [] c = "C" -> "c"
    [] OTHER -> c

toLowerCase(s) == [k \in 1..Len(s) |-> LowerChar(s[k])]

RECURSIVE TrimStart(_)
TrimStart(s) == IF s # <<>> /\ Head(s) = " " THEN TrimStart(Tail(s)) ELSE s

RECURSIVE TrimEnd(_)
TrimEnd(s) ==
  IF s # <<>> /\ s[Len(s)] = " " THEN TrimEnd(SubSeq(s, 1, Len(s) - 1)) ELSE s

\* String.prototype.trim
trim(s) == TrimEnd(TrimStart(s))

\* String.prototype.includes
includes(s, sub) ==
  \E k \in 0..(Len(s) - Len(sub)) : SubSeq(s, k + 1, k + Len(sub)) = sub

\* String.prototype.startsWith
startsWith(s, prefix) ==
  Len(prefix) <= Len(s) /\ SubSeq(s, 1, Len(prefix)) = prefix

\* Array.prototype.filter(Boolean) on a list of strings: drops the empty ones
RECURSIVE FilterBoolean(_)
FilterBoolean(list) ==
  IF list = <<>> THEN <<>>
  ELSE IF Head(list) = <<>> THEN FilterBoolean(Tail(list))
       ELSE <<Head(list)>> \o FilterBoolean(Tail(list))

\* Array.prototype.join on a list of strings
RECURSIVE join(_, _)
join(list, sep) ==
  IF list = <<>> THEN <<>>
  ELSE IF Len(list) = 1 THEN list[1]
       ELSE list[1] \o <<sep>> \o join(Tail(list), sep)

\* list.map(s => s.toLowerCase().trim()).filter(Boolean)
NormalizeTags(list) ==
  FilterBoolean([k \in 1..Len(list) |-> trim(toLowerCase(list[k]))])

----------------------------------------------------------------------------
(* Lookup tables *)

characters ==
  << "Captain Falcon", "Donkey Kong", "Fox", "Mr. Game & Watch", "Kirby",
     "Bowser", "Link", "Luigi", "Mario", "Marth", "Mewtwo", "Ness", "Peach",
     "Pikachu", "Ice Climbers", "Jigglypuff", "Samus", "Yoshi", "Zelda",
     "Sheik", "Falco", "Young Link", "Dr. Mario", "Roy", "Pichu", "Ganondorf",
     "Master Hand", "Male Wireframe", "Female Wireframe", "Giga Bowser",
     "Crazy Hand", "Sandbag", "Popo", "Unknown" >>

characters_lowercase ==
  << "captain falcon", "donkey kong", "fox", "mr. game & watch", "kirby",
     "bowser", "link", "luigi", "mario", "marth", "mewtwo", "ness", "peach",
     "pikachu", "ice climbers", "jigglypuff", "samus", "yoshi", "zelda",
     "sheik", "falco", "young link", "dr. mario", "roy", "pichu", "ganondorf",
     "master hand", "male wireframe", "female wireframe", "giga bowser",
     "crazy hand", "sandbag", "popo", "unknown" >>

\* characters[id] of the code (0-based); "undefined" when id is no index of the table
CharacterAt(id) ==
  IF id >= 0 /\ id < Len(characters) THEN characters[id + 1] ELSE "undefined"

\* the stage table: "null" marks the holes of the array
stages ==
  << "null", "null", "Fountain of Dreams", "Pokemon Stadium",
     "Princess Peach's Castle", "Kongo Jungle", "Brinstar", "Corneria",
     "Yoshi's Story", "Onett", "Mute City", "Rainbow Cruise", "Jungle Japes",
     "Great Bay", "Hyrule Temple", "Brinstar Depths", "Yoshi's Island",
     "Green Greens", "Fourside", "Mushroom Kingdom I", "Mushroom Kingdom II",
     "null", "Venom", "Poke Floats", "Big Blue", "Icicle Mountain", "Icetop",
     "Flat Zone", "Dream Land N64", "Yoshi's Island N64", "Kongo Jungle N64",
     "Battlefield", "Final Destination" >>

\* stages[id] of the code (0-based): "null" for a hole, "undefined" off the table
StageAt(id) ==
  IF id >= 0 /\ id < Len(stages) THEN stages[id + 1] ELSE "undefined"

\* !stages[id]
StageFalsy(id) == StageAt(id) \in {"null", "undefined"}

\* the mode prefixes, each a match-identifier prefix, with the mode it names
modes ==
  << [prefix |-> <<"mode.", "ranked">>,   name |-> "Ranked"],
     [prefix |-> <<"mode.", "unranked">>, name |-> "Unranked"],
     [prefix |-> <<"mode.", "direct">>,   name |-> "Direct"] >>

RECURSIVE MatchTypeFrom(_, _)
MatchTypeFrom(matchId, k) ==
  IF k > Len(modes) THEN "Unknown"
  ELSE IF startsWith(matchId, modes[k].prefix) THEN modes[k].name
       ELSE MatchTypeFrom(matchId, k + 1)

\* the first mode of the table returned for every identifier
getMatchTypeFirstMode(matchId) ==
  IF matchId = <<>> THEN "Unknown" ELSE modes[1].name

getMatchType(matchId) ==
  IF matchId = <<>> THEN "Unknown" ELSE MatchTypeFrom(matchId, 1)

----------------------------------------------------------------------------
(* Identity and filter resolution *)

\* A metadata player is [present, hasNames, netplay, code]; a missing name or
\* code is the empty string, as `names.netplay || ""` makes it.
NoPlayer == [present |-> FALSE, hasNames |-> FALSE, netplay |-> <<>>, code |-> <<>>]

extractIdentity(metaPlayer) ==
  IF ~metaPlayer.present \/ ~metaPlayer.hasNames
  THEN [hasTags |-> FALSE, tagLower |-> <<>>, displayName |-> <<>>, connectCode |-> <<>>]
  ELSE [hasTags |-> TRUE,
        tagLower |-> FilterBoolean(<<toLowerCase(metaPlayer.netplay),
                                     toLowerCase(metaPlayer.code)>>),
        displayName |-> metaPlayer.netplay,
        connectCode |-> metaPlayer.code]

\* a tag equal to a wanted entry asked for, instead of one containing it
matchesAnyTagWhole(identity, wantedListLower) ==
  IF Len(wantedListLower) = 0 THEN TRUE
  ELSE IF ~identity.hasTags \/ Len(identity.tagLower) = 0 THEN FALSE
  ELSE \E t \in 1..Len(identity.tagLower) :
         \E r \in 1..Len(wantedListLower) :
           identity.tagLower[t] = wantedListLower[r]

matchesAnyTag(identity, wantedListLower) ==
  IF Len(wantedListLower) = 0 THEN TRUE
  ELSE IF ~identity.hasTags \/ Len(identity.tagLower) = 0 THEN FALSE
  ELSE \E t \in 1..Len(identity.tagLower) :
         \E r \in 1..Len(wantedListLower) :
           includes(identity.tagLower[t], wantedListLower[r])

isIgnoredOpponent(identity, ignoredLower) ==
  IF Len(ignoredLower) = 0 THEN FALSE
  ELSE IF ~identity.hasTags \/ Len(identity.tagLower) = 0 THEN FALSE
  ELSE \E t \in 1..Len(identity.tagLower) :
         \E g \in 1..Len(ignoredLower) :
           includes(identity.tagLower[t], ignoredLower[g])

\* toLowerCase on the character names a caller passes (whole strings)
LowerName(name) ==
  CASE name = "Fox" -> "fox"
    [] name = "FOX" -> "fox"
    [] name = "Marth" -> "marth"
    [] name = "Wolf" -> "wolf"
    [] OTHER -> name

\* characters_lowercase.indexOf(name): 0-based, -1 when absent
IndexOfCharacter(name) ==
  IF \E k \in 1..Len(characters_lowercase) : characters_lowercase[k] = name
  THEN (CHOOSE k \in 1..Len(characters_lowercase) :
          /\ characters_lowercase[k] = name
          /\ \A j \in 1..(k - 1) : characters_lowercase[j] # name) - 1
  ELSE -1

\* null (isNull) when no name was given and also when the name is unknown
NoCharacterFilter == [isNull |-> TRUE, num |-> JsUndefined, name |-> ""]

resolveCharacterFilter(requestedChar) ==
  IF requestedChar = "" THEN NoCharacterFilter
  ELSE LET idx == IndexOfCharacter(LowerName(requestedChar))
       IN IF idx = -1 THEN NoCharacterFilter
          ELSE [isNull |-> FALSE, num |-> idx, name |-> characters[idx + 1]]

----------------------------------------------------------------------------
(* Single replay analysis *)

\* arr[idx] of the code (0-based), `dflt` standing for undefined
At(arr, idx, dflt) == IF idx >= 0 /\ idx < Len(arr) THEN arr[idx + 1] ELSE dflt

\* Number(settings?.stageId): undefined gives NaN, null gives 0
ToNumber(v) ==
  CASE v = JsUndefined -> JsNaN
    [] v = JsNull -> 0
    [] OTHER -> v

\* the comparison of the final percents written with <=
JsLessOrEqual(a, b) == a # JsUndefined /\ b # JsUndefined /\ a <= b

\* a < b on numbers, false when either side is undefined
JsLess(a, b) == a # JsUndefined /\ b # JsUndefined /\ a < b

\* the duration rounded up instead of down
CeilSeconds(frames) == (frames + 59) \div 60

\* Math.floor(total_seconds || 0), total_seconds held in frames (1/60 s)
FloorSeconds(frames) == frames \div 60

\* what the function returns on every exclusion path but the missing-name one
Excluded(total_seconds) ==
  [kind |-> "excluded", total_seconds |-> total_seconds, game_seconds |-> 0]

\* the viewpoint decision: [ok, playerIndex, opponentIndex]
NoViewpoint == [ok |-> FALSE, playerIndex |-> JsNull, opponentIndex |-> JsNull]
Viewpoint(p, o) == [ok |-> TRUE, playerIndex |-> p, opponentIndex |-> o]

\* the two orderings of the opponent-filter branch tried in the other order
ResolveViewpointP1First(p0, p1, wantedPlayersLower, wantedOpponentLower) ==
  LET p0MatchesYou == matchesAnyTag(p0, wantedPlayersLower)
      p1MatchesYou == matchesAnyTag(p1, wantedPlayersLower)
      p0MatchesOppFilter == matchesAnyTag(p0, wantedOpponentLower)
      p1MatchesOppFilter == matchesAnyTag(p1, wantedOpponentLower)
  IN IF Len(wantedOpponentLower) > 0
     THEN IF p1MatchesYou /\ p0MatchesOppFilter THEN Viewpoint(1, 0)
          ELSE IF p0MatchesYou /\ p1MatchesOppFilter THEN Viewpoint(0, 1)
          ELSE NoViewpoint
     ELSE IF p0MatchesYou /\ ~p1MatchesYou THEN Viewpoint(0, 1)
          ELSE IF p1MatchesYou /\ ~p0MatchesYou THEN Viewpoint(1, 0)
          ELSE IF p0MatchesYou /\ p1MatchesYou THEN Viewpoint(0, 1)
          ELSE NoViewpoint

\* the branch for two participants matching the self-filter left out
ResolveViewpointNoTieBreak(p0, p1, wantedPlayersLower, wantedOpponentLower) ==
  LET p0MatchesYou == matchesAnyTag(p0, wantedPlayersLower)
      p1MatchesYou == matchesAnyTag(p1, wantedPlayersLower)
      p0MatchesOppFilter == matchesAnyTag(p0, wantedOpponentLower)
      p1MatchesOppFilter == matchesAnyTag(p1, wantedOpponentLower)
  IN IF Len(wantedOpponentLower) > 0
     THEN IF p0MatchesYou /\ p1MatchesOppFilter THEN Viewpoint(0, 1)
          ELSE IF p1MatchesYou /\ p0MatchesOppFilter THEN Viewpoint(1, 0)
          ELSE NoViewpoint
     ELSE IF p0MatchesYou /\ ~p1MatchesYou THEN Viewpoint(0, 1)
          ELSE IF p1MatchesYou /\ ~p0MatchesYou THEN Viewpoint(1, 0)
          ELSE NoViewpoint

ResolveViewpoint(p0, p1, wantedPlayersLower, wantedOpponentLower) ==
  LET p0MatchesYou == matchesAnyTag(p0, wantedPlayersLower)
      p1MatchesYou == matchesAnyTag(p1, wantedPlayersLower)
      p0MatchesOppFilter == matchesAnyTag(p0, wantedOpponentLower)
      p1MatchesOppFilter == matchesAnyTag(p1, wantedOpponentLower)
  IN IF Len(wantedOpponentLower) > 0
     THEN IF p0MatchesYou /\ p1MatchesOppFilter THEN Viewpoint(0, 1)
          ELSE IF p1MatchesYou /\ p0MatchesOppFilter THEN Viewpoint(1, 0)
          ELSE NoViewpoint
     ELSE IF p0MatchesYou /\ ~p1MatchesYou THEN Viewpoint(0, 1)
          ELSE IF p1MatchesYou /\ ~p0MatchesYou THEN Viewpoint(1, 0)
          ELSE IF p0MatchesYou /\ p1MatchesYou THEN Viewpoint(0, 1)
          ELSE NoViewpoint

\* the part of the function after a viewpoint was chosen (from the ignore list on)
ClassifyOutcome(gameData, vp, p0, p1, ignoredOpponentsLower, playerCharacterFilter, opponentCharacterFilter) ==
  LET settings == gameData.settings
      total_seconds == gameData.total_seconds
      playerIndex == vp.playerIndex
      opponentIndex == vp.opponentIndex
      playerIdentity == IF playerIndex = 0 THEN p0 ELSE p1
      opponentIdentity == IF opponentIndex = 0 THEN p0 ELSE p1
      playerCharId == At(settings.players, playerIndex, JsUndefined)
      oppCharId == At(settings.players, opponentIndex, JsUndefined)
      playerCharName == IF CharacterAt(playerCharId) = "undefined"
                        THEN "Unknown" ELSE CharacterAt(playerCharId)
      oppCharName == IF CharacterAt(oppCharId) = "undefined"
                     THEN "Unknown" ELSE CharacterAt(oppCharId)
      latestPercPlayer == At(gameData.latestFramePercents, playerIndex, JsUndefined)
      latestPercOpp == At(gameData.latestFramePercents, opponentIndex, JsUndefined)
      playerKills == IF gameData.stats.present
                     THEN At(gameData.stats.overall, playerIndex, 0) ELSE 0
      opponentKills == IF gameData.stats.present
                       THEN At(gameData.stats.overall, opponentIndex, 0) ELSE 0
      game_seconds == FloorSeconds(total_seconds)
      moreKills == playerKills > opponentKills
      lowerPercent == playerKills = opponentKills /\ JsLess(latestPercPlayer, latestPercOpp)
      didWin == moreKills \/ lowerPercent
      num == ToNumber(settings.stageId)
      stageId == IF num = JsNaN \/ num < 0 \/ num >= Len(stages) THEN JsNull ELSE num
  IN IF isIgnoredOpponent(opponentIdentity, ignoredOpponentsLower)
       THEN Excluded(total_seconds)
     ELSE IF ~playerCharacterFilter.isNull /\ playerCharacterFilter.num # playerCharId
       THEN Excluded(total_seconds)
     ELSE IF ~opponentCharacterFilter.isNull /\ opponentCharacterFilter.num # oppCharId
       THEN Excluded(total_seconds)
     ELSE IF game_seconds < 30
       THEN Excluded(total_seconds)
     ELSE IF playerKills = 0 /\ opponentKills = 0
       THEN Excluded(total_seconds)
     ELSE [kind |-> "data",
           total_games |-> 1,
           total_wins |-> IF didWin THEN 1 ELSE 0,
           total_seconds |-> total_seconds,
           game_seconds |-> game_seconds,
           player_character_num |-> playerCharId,
           player_character_name |-> playerCharName,
           opponent_character_num |-> oppCharId,
           opponent_character_name |-> oppCharName,
           stage_num |-> stageId,
           stage_name |-> IF stageId = JsNull \/ StageFalsy(stageId)
                          THEN "Unknown Stage" ELSE StageAt(stageId),
           player_index |-> playerIndex,
           player_name |-> playerIdentity.displayName,
           player_code |-> playerIdentity.connectCode,
           opponent_index |-> opponentIndex,
           opponent_name |-> opponentIdentity.displayName,
           opponent_code |-> opponentIdentity.connectCode]

\* f is the record of the normalized filters of the call:
\* [wantedPlayersLower, wantedOpponentLower, ignoredOpponentsLower,
\*  playerCharacterFilter, opponentCharacterFilter, rankedOnly]
processSingleReplay(gameData, f) ==
  LET settings == gameData.settings
      playersMeta == IF gameData.metadata.present THEN gameData.metadata.players ELSE <<>>
      p0 == extractIdentity(At(playersMeta, 0, NoPlayer))
      p1 == extractIdentity(At(playersMeta, 1, NoPlayer))
      matchId == IF settings.present THEN settings.matchId ELSE <<>>
      matchType == getMatchType(matchId)
      total_seconds == gameData.total_seconds
      vp == ResolveViewpoint(p0, p1, f.wantedPlayersLower, f.wantedOpponentLower)
  IN IF f.rankedOnly /\ matchType # "Ranked"
       THEN Excluded(total_seconds)
     ELSE IF p0.displayName = <<>> \/ p1.displayName = <<>>
       THEN [kind |-> "null"]
     ELSE IF ~settings.present
       THEN Excluded(total_seconds)            \* settings.players throws: the catch block
     ELSE IF Len(playersMeta) < 2 \/ Len(settings.players) < 2
       THEN Excluded(total_seconds)
     ELSE IF ~vp.ok
       THEN Excluded(total_seconds)
     ELSE ClassifyOutcome(gameData, vp, p0, p1, f.ignoredOpponentsLower,
                          f.playerCharacterFilter, f.opponentCharacterFilter)

\* result.stage_num of the loop: undefined on a result without the field
StageNumOf(res) == IF res.kind = "data" THEN res.stage_num ELSE JsUndefined

\* the loop's validity test of a result's stage (both copies of it)
StageInvalid(stage_num) ==
  stage_num = JsNull \/ stage_num = JsUndefined \/ stage_num = JsNaN \/ StageFalsy(stage_num)

----------------------------------------------------------------------------
(* Content cache *)

\* null (JsNull) when the file cannot be read
hashReplayFile(file) == file.hash

\* the document a failed read or parse leaves the call with
EmptyCache == [results |-> <<>>]

\* a call that starts from an empty cache whatever the folder holds
loadCacheEmpty(doc) == EmptyCache

\* disk is [readable, hasResults, user_player_arg, results]; results maps
\* content hashes to cached game data
loadCache(doc) ==
  IF ~doc.readable \/ ~doc.hasResults THEN EmptyCache
  ELSE [results |-> doc.results]

\* the document writeCache serializes
writeCache(cacheObj, userPlayerArg) ==
  [readable |-> TRUE, hasResults |-> TRUE,
   statsVersion |-> "ui-port", slippiJsVersion |-> "unknown",
   user_player_arg |-> userPlayerArg, results |-> cacheObj.results]

\* a loop that never finds an entry
CacheHitNever(cacheObj, hash) == FALSE

\* hash && cache.results[hash]
CacheHit(cacheObj, hash) == hash # JsNull /\ hash \in DOMAIN cacheObj.results

\* the assignment to cache.results[hash] left out
CachePutNone(cacheObj, hash, gameData) == cacheObj

\* the entry stored before the decoder's stats are attached to it
CachePutWithoutStats(cacheObj, hash, gameData) ==
  [results |-> [h \in DOMAIN cacheObj.results \cup {hash} |->
                  IF h = hash
                  THEN [gameData EXCEPT !.stats = [present |-> FALSE, overall |-> <<>>,
                                                   actionCounts |-> <<>>]]
                  ELSE cacheObj.results[h]]]

\* cache.results[hash] = gameData
CachePut(cacheObj, hash, gameData) ==
  [results |-> [h \in DOMAIN cacheObj.results \cup {hash} |->
                  IF h = hash THEN gameData ELSE cacheObj.results[h]]]

\* the external decoder's output for a file, shaped into gameData by the loop
Decode(file, idx) ==
  LET latestFrame == file.raw.latestFrame
      frameIndex == IF latestFrame.present THEN latestFrame.frame ELSE 0
  IN [hash |-> hashReplayFile(file),
      file |-> idx,
      settings |-> file.raw.settings,
      metadata |-> file.raw.metadata,
      stats |-> file.raw.stats,
      total_seconds |-> frameIndex,
      latestFramePercents |-> IF latestFrame.present /\ latestFrame.hasPlayers
                              THEN latestFrame.percents
                              ELSE <<999, 999>>]

----------------------------------------------------------------------------
(* Report building helpers *)

\* secondsToHMS on a duration held in frames: the three floored fields
secondsToHMS(frames) ==
  LET whole == frames \div 60
  IN [h |-> whole \div 3600, m |-> (whole % 3600) \div 60, s |-> whole % 60]

\* ((wins / games) * 100).toFixed(2): the string, held as hundredths of a percent
ToFixed2(wins, games) ==
  [type |-> "string", hundredths |-> (2 * wins * 10000 + games) \div (2 * games)]

RateOrZero(wins, games) ==
  IF games # 0 THEN ToFixed2(wins, games) ELSE [type |-> "string", hundredths |-> 0]

\* rows.sort((a, b) => b.games - a.games): stable, descending by games
RECURSIVE InsertByGames(_, _)
InsertByGames(sorted, row) ==
  IF sorted = <<>> THEN <<row>>
  ELSE IF Head(sorted).games >= row.games
       THEN <<Head(sorted)>> \o InsertByGames(Tail(sorted), row)
       ELSE <<row>> \o sorted

RECURSIVE SortByGamesDesc(_)
SortByGamesDesc(rows) ==
  IF rows = <<>> THEN <<>>
  ELSE InsertByGames(SortByGamesDesc(SubSeq(rows, 1, Len(rows) - 1)), rows[Len(rows)])

----------------------------------------------------------------------------
(* Aggregation *)

NoActions ==
  [present |-> FALSE,
   lCancelCount |-> [present |-> FALSE, success |-> 0, fail |-> 0],
   wavedashCount |-> JsUndefined, rollCount |-> JsUndefined,
   ledgegrabCount |-> JsUndefined, dashDanceCount |-> JsUndefined,
   groundTechCount |-> [present |-> FALSE, away |-> 0, in |-> 0, neutral |-> 0, fail |-> 0],
   throwCount |-> [present |-> FALSE, up |-> 0, down |-> 0, forward |-> 0, back |-> 0]]

\* the accumulators as analyzeReplays declares them
InitAgg ==
  [total_games |-> 0, total_wins |-> 0, total_seconds |-> 0, counted_seconds |-> 0,
   characterPlaytime |-> <<>>,
   lCancelSuccessTotal |-> 0, lCancelFailTotal |-> 0, wavedashTotal |-> 0,
   rollTotal |-> 0, ledgegrabTotal |-> 0, dashDanceTotal |-> 0,
   techSuccessTotal |-> 0, techFailTotal |-> 0,
   totalStocksTaken |-> 0, totalStocksLost |-> 0,
   throwCounts |-> [up |-> 0, down |-> 0, forward |-> 0, back |-> 0],
   currentStreak |-> 0, bestWinStreak |-> 0,
   opponent_totals |-> <<>>,
   stage_rows |-> <<>>,
   matchupsDefined |-> FALSE, matchups |-> <<>>,
   new_replays |-> 0, skippedCount |-> 0]

\* the stage playtime assigned instead of added to
UpsertStageLastSeconds(rows, stageName, won, secs) ==
  IF \E k \in 1..Len(rows) : rows[k].stage = stageName
  THEN [k \in 1..Len(rows) |->
          IF rows[k].stage = stageName
          THEN [rows[k] EXCEPT !.games = @ + 1,
                               !.wins = @ + (IF won THEN 1 ELSE 0),
                               !.playtime = secs]
          ELSE rows[k]]
  ELSE Append(rows, [stage |-> stageName, games |-> 1,
                     wins |-> IF won THEN 1 ELSE 0, playtime |-> secs])

\* stage_totals / stage_wins / stage_playtime, one row per stage name in
\* insertion order
UpsertStage(rows, stageName, won, secs) ==
  IF \E k \in 1..Len(rows) : rows[k].stage = stageName
  THEN [k \in 1..Len(rows) |->
          IF rows[k].stage = stageName
          THEN [rows[k] EXCEPT !.games = @ + 1,
                               !.wins = @ + (IF won THEN 1 ELSE 0),
                               !.playtime = @ + secs]
          ELSE rows[k]]
  ELSE Append(rows, [stage |-> stageName, games |-> 1,
                     wins |-> IF won THEN 1 ELSE 0, playtime |-> secs])

\* characterPlaytime[playerCharacter] += game_seconds
UpsertPlaytime(rows, char, secs) ==
  IF \E k \in 1..Len(rows) : rows[k].char = char
  THEN [k \in 1..Len(rows) |->
          IF rows[k].char = char THEN [rows[k] EXCEPT !.seconds = @ + secs] ELSE rows[k]]
  ELSE Append(rows, [char |-> char, seconds |-> secs])

\* the inner object matchups[playerCharacter]
UpsertOpponentCell(cells, oppChar, won, secs) ==
  IF \E k \in 1..Len(cells) : cells[k].opponent = oppChar
  THEN [k \in 1..Len(cells) |->
          IF cells[k].opponent = oppChar
          THEN [cells[k] EXCEPT !.games = @ + 1,
                                !.wins = @ + (IF won THEN 1 ELSE 0),
                                !.totalSeconds = @ + secs]
          ELSE cells[k]]
  ELSE Append(cells, [opponent |-> oppChar, games |-> 1,
                      wins |-> IF won THEN 1 ELSE 0, totalSeconds |-> secs])

\* matchups[playerCharacter][opponentCharacter], both levels in insertion order
UpsertMatchup(rows, char, oppChar, won, secs) ==
  IF \E k \in 1..Len(rows) : rows[k].char = char
  THEN [k \in 1..Len(rows) |->
          IF rows[k].char = char
          THEN [rows[k] EXCEPT !.cells = UpsertOpponentCell(@, oppChar, won, secs)]
          ELSE rows[k]]
  ELSE Append(rows, [char |-> char,
                     cells |-> UpsertOpponentCell(<<>>, oppChar, won, secs)])

\* a count that `x || 0` reads: undefined counts as 0
OrZero(v) == IF v = JsUndefined THEN 0 ELSE v

\* the misc-stats block of the loop
AccumulateMisc(a, gameData, res) ==
  LET stats == gameData.stats
      actions == IF stats.present THEN At(stats.actionCounts, res.player_index, NoActions)
                 ELSE NoActions
      won == res.total_wins # 0
      kills(idx) == IF stats.present THEN At(stats.overall, idx, 0) ELSE 0
      streak == IF won THEN a.currentStreak + 1 ELSE 0
  IN [a EXCEPT
        !.lCancelSuccessTotal = @ + (IF actions.lCancelCount.present
                                     THEN actions.lCancelCount.success ELSE 0),
        !.lCancelFailTotal = @ + (IF actions.lCancelCount.present
                                  THEN actions.lCancelCount.fail ELSE 0),
        !.wavedashTotal = @ + OrZero(actions.wavedashCount),
        !.rollTotal = @ + OrZero(actions.rollCount),
        !.ledgegrabTotal = @ + OrZero(actions.ledgegrabCount),
        !.dashDanceTotal = @ + OrZero(actions.dashDanceCount),
        !.techSuccessTotal = @ + (IF actions.groundTechCount.present
                                  THEN actions.groundTechCount.away
                                       + actions.groundTechCount.in
                                       + actions.groundTechCount.neutral
                                  ELSE 0),
        !.techFailTotal = @ + (IF actions.groundTechCount.present
                               THEN actions.groundTechCount.fail ELSE 0),
        !.totalStocksTaken = @ + kills(res.player_index),
        !.totalStocksLost = @ + kills(res.opponent_index),
        !.throwCounts = IF actions.throwCount.present
                        THEN [up |-> @.up + actions.throwCount.up,
                              down |-> @.down + actions.throwCount.down,
                              forward |-> @.forward + actions.throwCount.forward,
                              back |-> @.back + actions.throwCount.back]
                        ELSE @,
        !.currentStreak = streak,
        !.bestWinStreak = IF won /\ streak > @ THEN streak ELSE @]

\* the character test that sends the loop to its next iteration
UnknownCharacter(name) == name \in {"", "Unknown", "undefined"}

----------------------------------------------------------------------------
(* analyzeReplays: input normalization, the loop body, the report *)

\* the normalized filters of a call
Normalize(o) ==
  [wantedPlayersLower |-> NormalizeTags(o.playerTags),
   wantedOpponentLower |-> NormalizeTags(o.opponentTags),
   ignoredOpponentsLower |-> NormalizeTags(o.ignoredOpponents),
   playerCharacterFilter |-> resolveCharacterFilter(o.playerCharacter),
   opponentCharacterFilter |-> resolveCharacterFilter(o.opponentCharacter),
   rankedOnly |-> o.rankedOnly]

\* BrowserWindow.getAllWindows()[0]: the window whose renderer invoked the handler
win == TRUE

ProgressEvent(processed, total) ==
  [type |-> "progress", processed |-> processed, total |-> total]

CancelledEvent == [type |-> "progress", cancelled |-> TRUE]

MatchLogEvent(res) ==
  [type |-> "match-log", p1 |-> res.player_name, p2 |-> res.opponent_name,
   stage |-> StageAt(res.stage_num), userWon |-> res.total_wins > 0]

\* the loop index sent as it is
SendProgressIndex(idx, total) == IF win THEN <<ProgressEvent(idx, total)>> ELSE <<>>

\* the tail of an iteration that runs to the end of the loop body
SendProgress(idx, total) == IF win THEN <<ProgressEvent(idx + 1, total)>> ELSE <<>>

\* a skip that forgets skippedCount++
SkipFileUncounted(c, a, decoded, kind) ==
  [cache |-> c, agg |-> a, decoded |-> decoded,
   emitted |-> <<>>, exit |-> "next", kind |-> kind]

\* skippedCount++; continue
SkipFile(c, a, decoded, kind) ==
  [cache |-> c, agg |-> [a EXCEPT !.skippedCount = @ + 1], decoded |-> decoded,
   emitted |-> <<>>, exit |-> "next", kind |-> kind]

\* the statements from "Accumulate match stats" to the end of the try block
Aggregate(c, a, decoded, gameData, res, idx, total) ==
  LET a1 == [a EXCEPT !.total_games = @ + res.total_games,
                      !.total_wins = @ + res.total_wins,
                      !.total_seconds = @ + res.total_seconds,
                      !.counted_seconds = @ + res.game_seconds]
      stageId == res.stage_num
      won == res.total_wins # 0
      a2 == [a1 EXCEPT !.stage_rows = UpsertStage(@, StageAt(stageId), won, res.game_seconds),
                       !.matchupsDefined = TRUE]
      playerCharacter == res.player_character_name
      opponentCharacter == res.opponent_character_name
      a3 == [a2 EXCEPT !.characterPlaytime =
                          UpsertPlaytime(@, playerCharacter, res.game_seconds),
                       !.matchups = UpsertMatchup(@, playerCharacter, opponentCharacter,
                                                  won, res.game_seconds)]
      a4 == AccumulateMisc(a3, gameData, res)
  IN IF StageInvalid(stageId)
     THEN [cache |-> c, agg |-> [a1 EXCEPT !.skippedCount = @ + 1], decoded |-> decoded,
           emitted |-> <<>>, exit |-> "return", kind |-> "return"]
     ELSE IF UnknownCharacter(playerCharacter) \/ UnknownCharacter(opponentCharacter)
     THEN [cache |-> c, agg |-> a2, decoded |-> decoded,
           emitted |-> <<>>, exit |-> "next", kind |-> "unknown-character"]
     ELSE [cache |-> c, agg |-> a4, decoded |-> decoded,
           emitted |-> (IF win THEN <<MatchLogEvent(res)>> ELSE <<>>)
                       \o SendProgress(idx, total),
           exit |-> "next", kind |-> "qualified"]

\* the first test of the result's stage left out: every result with a
\* viewpoint goes on to the aggregation
DispatchUnvalidated(c, a, decoded, gameData, res, idx, total) ==
  IF res.kind = "null" THEN SkipFile(c, a, decoded, "null")
  ELSE IF res.kind # "data" THEN SkipFile(c, a, decoded, "excluded")
  ELSE Aggregate(c, a, decoded, gameData, res, idx, total)

\* what the loop does with the result of processSingleReplay
Dispatch(c, a, decoded, gameData, res, idx, total) ==
  IF res.kind = "null" THEN SkipFile(c, a, decoded, "null")
  ELSE IF StageInvalid(StageNumOf(res))
    THEN SkipFile(c, a, decoded, IF res.kind = "data" THEN "bad-stage" ELSE "excluded")
  ELSE Aggregate(c, a, decoded, gameData, res, idx, total)

\* the loop body without its try/catch: a throwing decoder ends the call
LoopBodyUncaught(file, idx, total, c, a, f) ==
  LET hash == hashReplayFile(file)
      hit == CacheHit(c, hash)
      gameData == IF hit THEN c.results[hash] ELSE Decode(file, idx)
      c1 == IF ~hit /\ hash # JsNull THEN CachePut(c, hash, gameData) ELSE c
      a1 == IF ~hit /\ hash # JsNull THEN [a EXCEPT !.new_replays = @ + 1] ELSE a
  IN IF ~hit /\ ~file.decodeOk
     THEN [cache |-> c, agg |-> a, decoded |-> TRUE,
           emitted |-> <<>>, exit |-> "return", kind |-> "threw"]
     ELSE Dispatch(c1, a1, ~hit, gameData, processSingleReplay(gameData, f), idx, total)

\* a loop that stores a decoded file only if it passed the filters of the call
LoopBodyCacheQualified(file, idx, total, c, a, f) ==
  LET hash == hashReplayFile(file)
      hit == CacheHit(c, hash)
      gameData == IF hit THEN c.results[hash] ELSE Decode(file, idx)
      res == processSingleReplay(gameData, f)
      keep == ~hit /\ hash # JsNull /\ res.kind = "data"
      c1 == IF keep THEN CachePut(c, hash, gameData) ELSE c
      a1 == IF keep THEN [a EXCEPT !.new_replays = @ + 1] ELSE a
  IN IF ~hit /\ ~file.decodeOk
     THEN [cache |-> c, agg |-> a, decoded |-> TRUE,
           emitted |-> SendProgress(idx, total), exit |-> "next", kind |-> "threw"]
     ELSE Dispatch(c1, a1, ~hit, gameData, res, idx, total)

\* one iteration of the loop after the await, on file number idx (0-based)
LoopBody(file, idx, total, c, a, f) ==
  LET hash == hashReplayFile(file)
      hit == CacheHit(c, hash)
      gameData == IF hit THEN c.results[hash] ELSE Decode(file, idx)
      c1 == IF ~hit /\ hash # JsNull THEN CachePut(c, hash, gameData) ELSE c
      a1 == IF ~hit /\ hash # JsNull THEN [a EXCEPT !.new_replays = @ + 1] ELSE a
  IN IF ~hit /\ ~file.decodeOk
     THEN [cache |-> c, agg |-> a, decoded |-> TRUE,
           emitted |-> SendProgress(idx, total), exit |-> "next", kind |-> "threw"]
     ELSE Dispatch(c1, a1, ~hit, gameData, processSingleReplay(gameData, f), idx, total)

\* a loop that never looks at the flag
CancelCheckNever(flag) == FALSE

\* if (cancelRequested) at the top of the loop
CancelCheck(flag) == flag

\* the filters echoed in both shapes of the report
EchoFilters(o) ==
  [playerTags |-> o.playerTags, opponentTags |-> o.opponentTags,
   playerCharacter |-> o.playerCharacter, opponentCharacter |-> o.opponentCharacter,
   ignoredOpponents |-> o.ignoredOpponents]

StageResults(a) ==
  SortByGamesDesc([k \in 1..Len(a.stage_rows) |->
     [stage |-> a.stage_rows[k].stage,
      wins |-> a.stage_rows[k].wins,
      games |-> a.stage_rows[k].games,
      winrate |-> RateOrZero(a.stage_rows[k].wins, a.stage_rows[k].games),
      playtime |-> secondsToHMS(60 * a.stage_rows[k].playtime)]])

\* Object.keys(opponent_totals).map(...).sort(...)
OpponentResults(a) ==
  SortByGamesDesc([k \in 1..Len(a.opponent_totals) |->
     [opponentCode |-> a.opponent_totals[k].code,
      games |-> a.opponent_totals[k].games,
      wins |-> a.opponent_totals[k].wins,
      winrate |-> RateOrZero(a.opponent_totals[k].wins, a.opponent_totals[k].games)]])

MiscStats(a) ==
  [lCancelSuccessTotal |-> a.lCancelSuccessTotal, lCancelFailTotal |-> a.lCancelFailTotal,
   wavedashTotal |-> a.wavedashTotal, rollTotal |-> a.rollTotal,
   ledgegrabTotal |-> a.ledgegrabTotal, dashDanceTotal |-> a.dashDanceTotal,
   techSuccessTotal |-> a.techSuccessTotal, techFailTotal |-> a.techFailTotal,
   totalStocksTaken |-> a.totalStocksTaken, totalStocksLost |-> a.totalStocksLost,
   throwCounts |-> a.throwCounts,
   bestWinStreak |-> a.bestWinStreak]

\* the report returned when no match was counted
NoGamesReport(o, a) ==
  [foundGames |-> FALSE,
   filters |-> EchoFilters(o),
   summary |-> [totalGames |-> 0, totalWins |-> 0,
                winRate |-> [type |-> "number", value |-> 0],
                analyzedTime |-> secondsToHMS(0),
                totalTimeAllReplays |-> secondsToHMS(a.total_seconds),
                new_replays |-> a.new_replays],
   stages |-> <<>>, nicknames |-> <<>>, codes |-> <<>>, opponents |-> <<>>,
   matchups |-> <<>>]

\* resultObject
GamesReport(o, a, total) ==
  [foundGames |-> TRUE,
   filters |-> EchoFilters(o),
   summary |-> [totalGames |-> a.total_games, totalWins |-> a.total_wins,
                winRate |-> RateOrZero(a.total_wins, a.total_games),
                analyzedTime |-> secondsToHMS(60 * a.counted_seconds),
                totalTimeAllReplays |-> secondsToHMS(a.total_seconds),
                newReplaysCached |-> a.new_replays,
                totalReplaysScanned |-> total,
                skippedReplays |-> a.skippedCount],
   stages |-> StageResults(a), nicknames |-> <<>>, codes |-> <<>>,
   opponents |-> OpponentResults(a),
   characterPlaytime |-> [k \in 1..Len(a.characterPlaytime) |->
                            [char |-> a.characterPlaytime[k].char,
                             playtime |-> secondsToHMS(60 * a.characterPlaytime[k].seconds)]],
   matchups |-> a.matchups,
   misc |-> MiscStats(a)]

\* the test of total_games left out: resultObject in every case
BuildReportAlwaysGames(o, a, total) == GamesReport(o, a, total)

\* the value analyzeReplays returns after the cache was written
BuildReport(o, a, total) ==
  IF a.total_games = 0 THEN NoGamesReport(o, a) ELSE GamesReport(o, a, total)

----------------------------------------------------------------------------
(* The corpus: what the external decoder yields for the files of the model *)

Named(netplay, code) ==
  [present |-> TRUE, hasNames |-> TRUE, netplay |-> netplay, code |-> code]

Alice == Named(<<"A", "c">>, <<"A", "C", "#", "1">>)
Bob == Named(<<"B", "c">>, <<"B", "C", "#", "2">>)
Cara == Named(<<"C", "b">>, <<"C", "B", "#", "3">>)
Nameless == Named(<<>>, <<"X", "#", "9">>)

Fox == 2
Marth == 9
Falco == 20

Battlefield == 31
FinalDestination == 32
StageHole == 21

Actions(wavedashes, throwsUp) ==
  [present |-> TRUE,
   lCancelCount |-> [present |-> TRUE, success |-> 3, fail |-> 1],
   wavedashCount |-> wavedashes, rollCount |-> 2,
   ledgegrabCount |-> JsUndefined, dashDanceCount |-> 5,
   groundTechCount |-> [present |-> TRUE, away |-> 1, in |-> 0, neutral |-> 1, fail |-> 2],
   throwCount |-> [present |-> TRUE, up |-> throwsUp, down |-> 0, forward |-> 1, back |-> 0]]

\* the decoder's output: settings, metadata, stats and the latest frame
Raw(matchId, p0, p1, c0, c1, stageId, k0, k1, frame, pct0, pct1) ==
  [settings |-> [present |-> TRUE, matchId |-> matchId,
                 players |-> <<c0, c1>>, stageId |-> stageId],
   metadata |-> [present |-> TRUE, players |-> <<p0, p1>>],
   stats |-> [present |-> TRUE, overall |-> <<k0, k1>>,
              actionCounts |-> <<Actions(4, 1), Actions(0, 2)>>],
   latestFrame |-> [present |-> TRUE, hasPlayers |-> TRUE, frame |-> frame,
                    percents |-> <<pct0, pct1>>]]

RankedId == <<"mode.", "ranked", "-", "1">>
UnrankedId == <<"mode.", "unranked", "-", "2">>

File(hash, raw) == [hash |-> hash, decodeOk |-> TRUE, raw |-> raw]

\* a win of Alice (participant 0) over Bob, 90 s, ranked
WinFile == File(1, Raw(RankedId, Alice, Bob, Fox, Marth, Battlefield, 4, 2, 5400, 50, 80))
\* equal kills, Alice (participant 1) with the higher percent: a loss, 120 s, unranked
LossFile == File(2, Raw(UnrankedId, Bob, Alice, Marth, Fox, FinalDestination, 3, 3, 7200, 50, 80))
\* a participant with no display name
NamelessFile == File(3, Raw(RankedId, Alice, Nameless, Fox, Marth, Battlefield, 4, 2, 5400, 50, 80))
\* 29.98 s
ShortFile == File(4, Raw(RankedId, Alice, Bob, Fox, Marth, Battlefield, 1, 0, 1799, 10, 90))
\* a stage id that is a hole of the stage table
BadStageFile == File(5, Raw(RankedId, Alice, Bob, Fox, Marth, StageHole, 4, 2, 5400, 50, 80))
\* an opponent whose character id is missing
UnknownCharFile ==
  File(6, Raw(RankedId, Alice, Bob, Fox, JsUndefined, Battlefield, 4, 1, 6000, 50, 80))
\* no kills on either side
ZeroKillFile == File(7, Raw(RankedId, Alice, Bob, Fox, Marth, Battlefield, 0, 0, 5400, 0, 0))
\* neither participant is Alice
OthersFile == File(8, Raw(RankedId, Bob, Cara, Marth, Fox, Battlefield, 2, 4, 3600, 70, 20))
\* a file for which getSettings() yields nothing: processSingleReplay throws
\* on settings.players and its own catch block answers
NoSettingsFile ==
  File(10, [Raw(RankedId, Alice, Bob, Fox, Marth, Battlefield, 4, 2, 5400, 50, 80)
              EXCEPT !.settings = [present |-> FALSE, matchId |-> <<>>,
                                   players |-> <<>>, stageId |-> JsUndefined]])
\* a loss of Alice as another character, 50 s, on the other stage
SecondCharFile ==
  File(11, Raw(RankedId, Alice, Bob, Falco, Marth, FinalDestination, 1, 3, 3000, 50, 80))
\* a file the decoder throws on
CorruptFile == [hash |-> 9, decodeOk |-> FALSE]
\* a file that decodes but cannot be read whole for hashing
UnhashableFile ==
  File(JsNull, Raw(RankedId, Alice, Bob, Fox, Marth, FinalDestination, 4, 3, 4200, 50, 80))

\* the folder holds its files by name; the bytes of a file decide its hash and
\* what the decoder yields
FileKinds ==
  {"win", "loss", "nameless", "short", "bad-stage", "unknown-char", "zero-kill",
   "others", "corrupt", "unhashable", "no-settings"}

FileOf(name) ==
  CASE name = "win" -> WinFile
    [] name = "loss" -> LossFile
    [] name = "nameless" -> NamelessFile
    [] name = "short" -> ShortFile
    [] name = "bad-stage" -> BadStageFile
    [] name = "unknown-char" -> UnknownCharFile
    [] name = "zero-kill" -> ZeroKillFile
    [] name = "others" -> OthersFile
    [] name = "corrupt" -> CorruptFile
    [] name = "unhashable" -> UnhashableFile
    [] name = "no-settings" -> NoSettingsFile
    [] name = "second-char" -> SecondCharFile

RECURSIVE SeqsUpTo(_, _)
SeqsUpTo(S, n) ==
  IF n = 0 THEN {<<>>}
  ELSE LET shorter == SeqsUpTo(S, n - 1)
       IN shorter \cup {Append(q, x) : q \in {r \in shorter : Len(r) = n - 1}, x \in S}

Corpora == SeqsUpTo(FileKinds, MaxFiles)

\* the cache documents a folder may hold before the first call
MissingDoc == [readable |-> FALSE, hasResults |-> FALSE]
OldDoc ==
  [readable |-> TRUE, hasResults |-> TRUE,
   statsVersion |-> "ui-port", slippiJsVersion |-> "unknown", user_player_arg |-> <<>>,
   results |-> (1 :> Decode(WinFile, 0)) @@ (77 :> Decode(LossFile, 5))]

InitialDocs == {MissingDoc, OldDoc}

\* the filter criteria a caller may pass
Options(playerTags, opponentTags, ignoredOpponents, playerCharacter, opponentCharacter, rankedOnly) ==
  [playerTags |-> playerTags, opponentTags |-> opponentTags,
   ignoredOpponents |-> ignoredOpponents, playerCharacter |-> playerCharacter,
   opponentCharacter |-> opponentCharacter, rankedOnly |-> rankedOnly]

SelfOnly == Options(<< <<" ", "A", "c">> >>, <<>>, <<>>, "", "", FALSE)
Pairing == Options(<< <<"a">> >>, << <<"B">> >>, <<>>, "FOX", "", FALSE)
RankedAny == Options(<<>>, << <<" ">> >>, <<>>, "", "", TRUE)
WolfOnly == Options(<< <<"a">> >>, <<>>, <<>>, "Wolf", "", FALSE)
IgnoreCara == Options(<< <<"b">> >>, <<>>, << <<"C", "b", "#">> >>, "", "fox", FALSE)

OptionSet == {SelfOnly, Pairing, RankedAny, WolfOnly, IgnoreCara}

\* the criteria of a later call on the folder: the same again, or the plainest
LaterOptions(o) == {o, SelfOnly}

----------------------------------------------------------------------------
(* The state machine *)

NoResult == [kind |-> "none"]
NoCall == [kind |-> "none"]
NoLast == [kind |-> "none"]
\* idleCalls: cancel() calls made while no call was in flight, in all;
\* idleBefore: those made since the previous call ended, up to the start of this one;
\* cancelAt: the number of files done when cancel() first came during this call;
\* loaded: the cache this call loaded; last: the latest iteration of the loop
InitHist ==
  [idleCalls |-> 0, idleBefore |-> 0, idleNow |-> 0, cancelAt |-> JsUndefined,
   loaded |-> EmptyCache, last |-> NoLast]

Init ==
  /\ files \in Corpora
  /\ disk \in InitialDocs
  /\ fsMode = "ok"
  /\ cancelRequested = FALSE
  /\ pc = "idle"
  /\ opts = SelfOnly
  /\ i = 0
  /\ cache = EmptyCache
  /\ agg = InitAgg
  /\ events = <<>>
  /\ decodes = <<>>
  /\ writes = 0
  /\ hist = InitHist
  /\ result = NoResult
  /\ prev = <<>>
  /\ runs = 0
  /\ psrIn = NoCall
  /\ psrOut = NoCall

\* what analyzeReplays hands to its caller: a value, or an exception
Returns(value) == [threw |-> FALSE, value |-> value]
Throws(message) == [threw |-> TRUE, message |-> message]

\* the handler without its try/catch: the exception reaches the host
AnalyzeHandlerUncaught(outcome) ==
  IF outcome.threw THEN [kind |-> "rejected"] ELSE outcome.value

\* the analyze-replays handler: the value of analyzeReplays, or { error: err.message }
AnalyzeHandler(outcome) ==
  IF outcome.threw THEN [kind |-> "error", error |-> outcome.message] ELSE outcome.value

\* what is kept of a call when the next one starts
Snapshot == [opts |-> opts, result |-> result, i |-> i]

\* the end of analyzeReplays with the call of writeCache left out
FinishWithoutWrite(c, a, ev, idx, h, w) ==
  /\ cancelRequested' = FALSE
  /\ pc' = "idle"
  /\ cache' = c
  /\ agg' = a
  /\ events' = ev
  /\ i' = idx
  /\ hist' = h
  /\ disk' = disk
  /\ writes' = w
  /\ result' = [kind |-> "report", report |-> BuildReport(opts', a, Len(files))]

\* the end of analyzeReplays, from the statement after the loop to the return
\* value the analyze-replays handler passes on
Finish(c, a, ev, idx, h, w) ==
  /\ cancelRequested' = FALSE
  /\ pc' = "idle"
  /\ cache' = c
  /\ agg' = a
  /\ events' = ev
  /\ i' = idx
  /\ hist' = h
  /\ IF fsMode = "nowrite"
     THEN /\ disk' = disk
          /\ writes' = w
          /\ result' = AnalyzeHandler(Throws("writeFileSync failed"))
     ELSE /\ disk' = writeCache(c, join(Normalize(opts').wantedPlayersLower, ","))
          /\ writes' = w + 1
          /\ result' = AnalyzeHandler(Returns([kind |-> "report",
                                               report |-> BuildReport(opts', a, Len(files))]))

\* the flag left as the previous cancel() calls set it
ResetAtStartKeep(flag) == flag

\* cancelRequested = false before the loop
ResetAtStart(flag) == FALSE

\* analyzeReplays up to its first suspension (or to its end on an empty folder)
StartAnalyze(o) ==
  /\ pc = "idle"
  /\ runs < MaxRuns
  /\ runs > 0 => o \in LaterOptions(opts)
  /\ runs' = runs + 1
  /\ prev' = IF runs = 0 THEN <<>> ELSE <<Snapshot>>
  /\ opts' = o
  /\ decodes' = <<>>
  /\ UNCHANGED <<files, fsMode, psrIn, psrOut>>
  /\ LET h == [idleCalls |-> hist.idleCalls, idleBefore |-> hist.idleNow, idleNow |-> 0,
               cancelAt |-> JsUndefined, loaded |-> loadCache(disk), last |-> NoLast]
         stop == CancelCheck(ResetAtStart(cancelRequested))
     IN IF fsMode = "nolist"
        THEN /\ result' = AnalyzeHandler(Throws("glob.sync failed"))
             /\ pc' = "idle"
             /\ cache' = loadCache(disk)
             /\ agg' = InitAgg
             /\ events' = <<>>
             /\ i' = 0
             /\ writes' = 0
             /\ hist' = h
             /\ UNCHANGED <<disk, cancelRequested>>
        ELSE IF Len(files) = 0 \/ stop
        THEN Finish(loadCache(disk), InitAgg,
                    IF Len(files) > 0 /\ win THEN <<CancelledEvent>> ELSE <<>>, 0, h, 0)
        ELSE /\ cancelRequested' = ResetAtStart(cancelRequested)
             /\ pc' = "await"
             /\ cache' = loadCache(disk)
             /\ agg' = InitAgg
             /\ events' = <<>>
             /\ i' = 0
             /\ writes' = 0
             /\ hist' = h
             /\ UNCHANGED <<disk, result>>

\* the cancel-analysis handler
cancelAnalysis ==
  /\ pc = "idle" => hist.idleCalls < MaxCancels
  /\ cancelRequested' = TRUE
  /\ hist' = IF pc = "idle"
             THEN [hist EXCEPT !.idleCalls = @ + 1, !.idleNow = @ + 1]
             ELSE IF hist.cancelAt = JsUndefined THEN [hist EXCEPT !.cancelAt = i]
             ELSE hist
  /\ UNCHANGED <<files, disk, fsMode, pc, opts, i, cache, agg, events, decodes,
                 writes, result, prev, runs, psrIn, psrOut>>

\* the loop from the resumption after `await` to the next suspension or to
\* the return of analyzeReplays
ProcessFile ==
  /\ pc = "await"
  /\ UNCHANGED <<files, fsMode, opts, prev, runs, psrIn, psrOut>>
  /\ \E b \in {LoopBody(FileOf(files[i + 1]), i, Len(files), cache, agg, Normalize(opts))} :
     LET total == Len(files)
         h == [hist EXCEPT !.last = [kind |-> b.kind, idx |-> i, aggBefore |-> agg]]
     IN /\ decodes' = IF b.decoded THEN Append(decodes, i) ELSE decodes
        /\ IF b.exit = "return"
           THEN /\ pc' = "idle"
                /\ result' = AnalyzeHandler(Returns([kind |-> "undefined"]))
                /\ cache' = b.cache
                /\ agg' = b.agg
                /\ events' = events \o b.emitted
                /\ hist' = h
                /\ UNCHANGED <<disk, cancelRequested, i, writes>>
           ELSE IF i + 1 < total /\ ~CancelCheck(cancelRequested)
           THEN /\ pc' = "await"
                /\ i' = i + 1
                /\ cache' = b.cache
                /\ agg' = b.agg
                /\ events' = events \o b.emitted
                /\ hist' = h
                /\ UNCHANGED <<disk, cancelRequested, writes, result>>
           ELSE Finish(b.cache, b.agg,
                       events \o b.emitted
                         \o (IF i + 1 < total /\ win THEN <<CancelledEvent>> ELSE <<>>),
                       i + 1, h, writes)

Next ==
  \/ \E o \in OptionSet : StartAnalyze(o)
  \/ cancelAnalysis
  \/ ProcessFile

Spec == Init /\ [][Next]_vars

----------------------------------------------------------------------------
(* processSingleReplay on its own: one call per step, on a decoded match of
   two participants and the normalized filters of a call *)

Participants == {Alice, Bob, Cara, Nameless}

\* normalized tag lists: none, part of a display name, a whole connect code, two tags
TagLists ==
  {<<>>, << <<"a">> >>, << <<"b">> >>, << <<"c">> >>,
   << <<"a", "c", "#", "1">> >>, << <<"a">>, <<"b", "c">> >>}

IgnoreLists == {<<>>, << <<"b">> >>}

CharacterRequests == {"", "fox"}

MatchOf(matchId, a, b) ==
  Decode(File(0, Raw(matchId, a, b, Fox, Marth, Battlefield, 4, 2, 5400, 50, 80)), 0)

FiltersOf(players, opponents, ignored, character, rankedOnly) ==
  [wantedPlayersLower |-> players,
   wantedOpponentLower |-> opponents,
   ignoredOpponentsLower |-> ignored,
   playerCharacterFilter |-> resolveCharacterFilter(character),
   opponentCharacterFilter |-> resolveCharacterFilter(""),
   rankedOnly |-> rankedOnly]

\* the calls made: every pairing of two participants with every filter setting
Pairings == {pair \in Participants \X Participants : pair[1] # pair[2]}

Calls ==
  {[kind |-> "call", gameData |-> MatchOf(matchId, pair[1], pair[2]),
    f |-> FiltersOf(players, opponents, ignored, character, rankedOnly)] :
     pair \in Pairings, matchId \in {RankedId, UnrankedId},
     players \in TagLists, opponents \in TagLists, ignored \in IgnoreLists,
     character \in CharacterRequests, rankedOnly \in BOOLEAN}

InitPSR ==
  /\ files = <<>>
  /\ disk = MissingDoc
  /\ fsMode = "ok"
  /\ cancelRequested = FALSE
  /\ pc = "idle"
  /\ opts = SelfOnly
  /\ i = 0
  /\ cache = EmptyCache
  /\ agg = InitAgg
  /\ events = <<>>
  /\ decodes = <<>>
  /\ writes = 0
  /\ hist = InitHist
  /\ result = NoResult
  /\ prev = <<>>
  /\ runs = 0
  /\ psrIn \in Calls
  /\ psrOut = NoCall

CallProcessSingleReplay ==
  /\ psrOut = NoCall
  /\ psrOut' = processSingleReplay(psrIn.gameData, psrIn.f)
  /\ UNCHANGED <<files, disk, fsMode, cancelRequested, pc, opts, i, cache, agg, events,
                 decodes, writes, hist, result, prev, runs, psrIn>>

NextPSR == CallProcessSingleReplay

SpecPSR == InitPSR /\ [][NextPSR]_vars

\* vocabulary of the properties of a single call
Called == psrIn.kind = "call" /\ psrOut # NoCall
CallP0 == extractIdentity(psrIn.gameData.metadata.players[1])
CallP1 == extractIdentity(psrIn.gameData.metadata.players[2])
OpponentFilterOn == Len(psrIn.f.wantedOpponentLower) > 0
SelfIs0 == matchesAnyTag(CallP0, psrIn.f.wantedPlayersLower)
SelfIs1 == matchesAnyTag(CallP1, psrIn.f.wantedPlayersLower)
\* P0 self / P1 opponent satisfies both filters; P1 self / P0 opponent does
Ordering0 == SelfIs0 /\ matchesAnyTag(CallP1, psrIn.f.wantedOpponentLower)
Ordering1 == SelfIs1 /\ matchesAnyTag(CallP0, psrIn.f.wantedOpponentLower)
\* the call's result carries a viewpoint / the match is excluded
Assigned == psrOut.kind = "data"
AssignedAs(p, o) == Assigned /\ psrOut.player_index = p /\ psrOut.opponent_index = o
ExcludedOut == psrOut.kind \in {"null", "excluded"}
\* a call in which nothing but the viewpoint can exclude the match
PlainCall ==
  /\ CallP0.displayName # <<>> /\ CallP1.displayName # <<>>
  /\ psrIn.f.ignoredOpponentsLower = <<>>
  /\ psrIn.f.playerCharacterFilter.isNull
  /\ ~psrIn.f.rankedOnly

\* C7 (as stated): with an opponent filter, a viewpoint is assigned only if
\* exactly one of the two orderings satisfies both filters, and the match is
\* excluded if neither does.
C7_OnlyIfExactlyOneOrdering ==
  (Called /\ OpponentFilterOn) =>
    /\ Assigned => (Ordering0 # Ordering1)
    /\ (~Ordering0 /\ ~Ordering1) => ExcludedOut

\* C7 (amended): with an opponent filter, a viewpoint is assigned only if at
\* least one ordering satisfies both filters; it is P0 self / P1 opponent
\* whenever that ordering satisfies (also when both do), P1 self / P0 opponent
\* otherwise; the match is excluded if neither ordering satisfies, and is not
\* excluded for its viewpoint if one does.
C7_FirstSatisfyingOrdering ==
  (Called /\ OpponentFilterOn) =>
    /\ Assigned => IF Ordering0 THEN AssignedAs(0, 1)
                   ELSE Ordering1 /\ AssignedAs(1, 0)
    /\ (~Ordering0 /\ ~Ordering1) => ExcludedOut
    /\ (PlainCall /\ (Ordering0 \/ Ordering1)) => Assigned

\* both orderings satisfy and the call assigned P0 self / P1 opponent
C7_Witness ==
  /\ Called /\ OpponentFilterOn
  /\ psrIn.f.wantedPlayersLower # <<>>
  /\ Ordering0 /\ Ordering1
  /\ AssignedAs(0, 1)

\* C8: without an opponent filter the single participant matching the
\* self-filter is self; if both match, participant 0 is self and participant 1
\* the opponent; if neither matches the match is excluded; and whenever a
\* viewpoint is assigned, with or without an opponent filter, the indices are
\* (0,1) or (1,0).
C8_SelfFilterViewpoint ==
  Called =>
    /\ Assigned => (AssignedAs(0, 1) \/ AssignedAs(1, 0))
    /\ ~OpponentFilterOn =>
         /\ Assigned => IF SelfIs0 THEN AssignedAs(0, 1)
                        ELSE SelfIs1 /\ AssignedAs(1, 0)
         /\ (~SelfIs0 /\ ~SelfIs1) => ExcludedOut
         /\ (PlainCall /\ (SelfIs0 \/ SelfIs1)) => Assigned

\* a self-filter both participants match, no opponent filter, participant 0 self
C8_Witness ==
  /\ Called /\ ~OpponentFilterOn
  /\ psrIn.f.wantedPlayersLower # <<>>
  /\ SelfIs0 /\ SelfIs1
  /\ AssignedAs(0, 1)

----------------------------------------------------------------------------
(* processSingleReplay on matches that differ in mode, duration, kills and
   final percents: Alice (Fox) is participant 0, Bob (Marth) participant 1 *)

DirectId == <<"mode.", "direct", "-", "3">>
GameIds == {RankedId, UnrankedId, DirectId, <<"x">>, <<>>}

\* 29 s, 29.98 s, 30 s, 30.02 s and 90 s, in frames
GameFrames == {1740, 1799, 1800, 1801, 5400}

GameKills == {<<0, 0>>, <<1, 0>>, <<0, 1>>, <<2, 2>>, <<3, 1>>}

GamePercents == {<<50, 80>>, <<80, 50>>, <<60, 60>>}

\* getLatestFrame(): a frame with its players, one without, none
LastFrames == {"full", "no-players", "missing"}

GameRaw(matchId, kills, frame, percents, lastFrame, hasStats) ==
  [settings |-> [present |-> TRUE, matchId |-> matchId,
                 players |-> <<Fox, Marth>>, stageId |-> Battlefield],
   metadata |-> [present |-> TRUE, players |-> <<Alice, Bob>>],
   stats |-> IF hasStats
             THEN [present |-> TRUE, overall |-> kills,
                   actionCounts |-> <<Actions(4, 1), Actions(0, 2)>>]
             ELSE [present |-> FALSE, overall |-> <<>>, actionCounts |-> <<>>],
   latestFrame |-> [present |-> lastFrame # "missing",
                    hasPlayers |-> lastFrame = "full",
                    frame |-> frame, percents |-> percents]]

GameCalls ==
  {[kind |-> "call",
    gameData |-> Decode(File(0, GameRaw(matchId, kills, frame, percents, lastFrame, hasStats)), 0),
    f |-> FiltersOf(players, <<>>, <<>>, character, rankedOnly)] :
     matchId \in GameIds, kills \in GameKills, frame \in GameFrames,
     percents \in GamePercents, lastFrame \in LastFrames, hasStats \in BOOLEAN,
     players \in {<< <<"a">> >>, << <<"b">> >>},
     character \in {"", "fox", "marth"}, rankedOnly \in BOOLEAN}

InitGame ==
  /\ files = <<>>
  /\ disk = MissingDoc
  /\ fsMode = "ok"
  /\ cancelRequested = FALSE
  /\ pc = "idle"
  /\ opts = SelfOnly
  /\ i = 0
  /\ cache = EmptyCache
  /\ agg = InitAgg
  /\ events = <<>>
  /\ decodes = <<>>
  /\ writes = 0
  /\ hist = InitHist
  /\ result = NoResult
  /\ prev = <<>>
  /\ runs = 0
  /\ psrIn \in GameCalls
  /\ psrOut = NoCall

SpecGame == InitGame /\ [][NextPSR]_vars

\* vocabulary: the call's match as the claims speak of it
CallSelf == IF SelfIs0 THEN 0 ELSE 1
CallOpponent == 1 - CallSelf
CallKills(idx) ==
  IF psrIn.gameData.stats.present THEN psrIn.gameData.stats.overall[idx + 1] ELSE 0
CallPercent(idx) == psrIn.gameData.latestFramePercents[idx + 1]
CallWholeSeconds == psrIn.gameData.total_seconds \div 60
CallIsRanked == startsWith(psrIn.gameData.settings.matchId, <<"mode.", "ranked">>)
\* the match has a viewpoint and passes the mode and character filters
PastFilters ==
  /\ SelfIs0 # SelfIs1
  /\ psrIn.f.rankedOnly => CallIsRanked
  /\ psrIn.f.ignoredOpponentsLower = <<>>
  /\ \/ psrIn.f.playerCharacterFilter.isNull
     \/ psrIn.f.playerCharacterFilter.num = psrIn.gameData.settings.players[CallSelf + 1]

\* C11: a match with a viewpoint that passes the character filters is
\* excluded exactly when its duration floors to less than 30 seconds or both
\* sides have no kill; 29 s is excluded, 30 s with a kill is included.
C11_DurationAndKills ==
  (Called /\ PastFilters) =>
    (psrOut.kind = "excluded"
       <=> (CallWholeSeconds < 30 \/ (CallKills(0) = 0 /\ CallKills(1) = 0)))
    /\ psrOut.kind \in {"excluded", "data"}

\* a match of exactly 30 s with one kill that is included
C11_Witness ==
  /\ Called /\ PastFilters
  /\ psrIn.gameData.total_seconds = 1800
  /\ CallKills(0) + CallKills(1) = 1
  /\ psrOut.kind = "data" /\ psrOut.game_seconds = 30

\* C12: with ranked-only set, a match whose identifier does not start with
\* the ranked prefix (unranked, direct, unrecognized, missing) is excluded;
\* with ranked-only clear, the result is what it is for a ranked identifier.
C12_RankedOnly ==
  Called =>
    /\ (psrIn.f.rankedOnly /\ ~CallIsRanked) => psrOut.kind = "excluded"
    /\ ~psrIn.f.rankedOnly =>
         psrOut = processSingleReplay(
                    [psrIn.gameData EXCEPT !.settings.matchId = RankedId], psrIn.f)

\* an unranked match that only the ranked-only setting excludes
C12_Witness ==
  /\ Called /\ psrIn.f.rankedOnly
  /\ psrIn.gameData.settings.matchId = UnrankedId
  /\ psrOut.kind = "excluded"
  /\ processSingleReplay(psrIn.gameData, [psrIn.f EXCEPT !.rankedOnly = FALSE]).kind = "data"

\* C13: the win flag of a qualifying match is set exactly when self has more
\* kills than the opponent, or as many and a strictly lower final percent;
\* equal kills with equal percents (999/999 included) is a loss.
C13_WinFlag ==
  (Called /\ psrOut.kind = "data") =>
    /\ psrOut.player_index = CallSelf
    /\ (psrOut.total_wins = 1) <=>
         \/ CallKills(CallSelf) > CallKills(CallOpponent)
         \/ /\ CallKills(CallSelf) = CallKills(CallOpponent)
            /\ CallPercent(CallSelf) < CallPercent(CallOpponent)
    /\ psrOut.total_wins \in {0, 1}

\* equal kills and the 999/999 fallback of a last frame without players: a loss
C13_Witness ==
  /\ Called /\ psrOut.kind = "data"
  /\ CallKills(0) = CallKills(1)
  /\ psrIn.gameData.latestFramePercents = <<999, 999>>
  /\ psrOut.total_wins = 0

----------------------------------------------------------------------------
(* Vocabulary of the properties *)

\* a call of analyze() has returned and none is in flight
Returned == pc = "idle" /\ runs > 0

\* the call that returned went through every file of the folder and gave a report
Completed == Returned /\ result.kind = "report" /\ i = Len(files)

\* the call before this one went through every file and gave a report
PrevCompleted ==
  prev # <<>> /\ prev[1].result.kind = "report" /\ prev[1].i = Len(files)

IsCancelled(e) == e.type = "progress" /\ "cancelled" \in DOMAIN e
IsProgress(e) == e.type = "progress" /\ "processed" \in DOMAIN e

CancelledCount(ev) == Cardinality({k \in 1..Len(ev) : IsCancelled(ev[k])})
ProgressCount(ev) == Cardinality({k \in 1..Len(ev) : IsProgress(ev[k])})

\* the file can be hashed and the decoder does not throw on it
Cacheable(name) == FileOf(name).hash # JsNull /\ FileOf(name).decodeOk

\* what processSingleReplay makes of a file under the filters of the call
ResultOf(name, o) == processSingleReplay(Decode(FileOf(name), 0), Normalize(o))

\* the file is a qualifying match under the filters of the call
Qualifies(name, o) ==
  /\ FileOf(name).decodeOk
  /\ \E r \in {ResultOf(name, o)} : r.kind = "data" /\ ~StageInvalid(r.stage_num)

QualifyingIn(m, o) == {j \in 1..m : Qualifies(files[j], o)}
WinsIn(m, o) == {j \in QualifyingIn(m, o) : ResultOf(files[j], o).total_wins = 1}

\* the report counts exactly the qualifying matches among the first m files
ReflectsPrefix(rep, m, o) ==
  \E q \in {QualifyingIn(m, o)} :
    IF q = {} THEN ~rep.foundGames
    ELSE /\ rep.foundGames
         /\ rep.summary.totalGames = Cardinality(q)
         /\ rep.summary.totalWins = Cardinality(WinsIn(m, o))

\* the cache document holds what the call loaded plus the decode results of
\* the cacheable files among the first m
CacheHoldsPrefix(doc, m) ==
  /\ doc.readable /\ doc.hasResults
  /\ DOMAIN doc.results =
       DOMAIN hist.loaded.results \cup {FileOf(files[j]).hash : j \in {k \in 1..m : Cacheable(files[k])}}
  /\ \A h \in DOMAIN doc.results :
       IF h \in DOMAIN hist.loaded.results THEN doc.results[h] = hist.loaded.results[h]
       ELSE \E j \in 1..m :
              /\ FileOf(files[j]).hash = h
              /\ doc.results[h] = Decode(FileOf(files[j]), j - 1)

\* the report with its count of newly cached files blanked
MaskNew(rep) ==
  IF rep.foundGames
  THEN [rep EXCEPT !.summary = [@ EXCEPT !.newReplaysCached = 0]]
  ELSE [rep EXCEPT !.summary = [@ EXCEPT !.new_replays = 0]]

NewlyCached(rep) ==
  IF rep.foundGames THEN rep.summary.newReplaysCached ELSE rep.summary.new_replays

\* the character name is given and is not in the character table
Unrecognized(name) == name # "" /\ IndexOfCharacter(LowerName(name)) = -1

----------------------------------------------------------------------------
(* C1 *)

\* C1 as stated: after a call that went through the whole folder, the next
\* call on the unchanged folder hands no file to the decoder, whatever the files.
C1_NoDecodeOnRerun == PrevCompleted => decodes = <<>>

\* C1 amended: after a call that went through the whole folder, the next call
\* hands to the decoder only files that could not be hashed or that the
\* decoder throws on; every file that was hashed and decoded is a cache hit.
C1_OnlyUncacheableRedecoded ==
  PrevCompleted => \A k \in 1..Len(decodes) : ~Cacheable(files[decodes[k] + 1])

\* a second complete call that served a file decoded by the first from the
\* cache and decoded another one again
C1_Witness ==
  /\ PrevCompleted /\ Completed
  /\ Len(files) = 2 /\ Cacheable(files[1]) /\ ~Cacheable(files[2])
  /\ NewlyCached(prev[1].result.report) = 1
  /\ decodes = <<1>>

----------------------------------------------------------------------------
(* C2 *)

\* C2 as stated: two consecutive complete calls with the same filters on the
\* unchanged folder return reports equal in every field, the count of newly
\* cached files included.
C2_IdenticalReports ==
  (PrevCompleted /\ Completed /\ opts = prev[1].opts) => result.report = prev[1].result.report

\* C2 amended: the two reports are equal in every field but the count of
\* newly cached files.
C2_IdenticalButNewCount ==
  (PrevCompleted /\ Completed /\ opts = prev[1].opts)
    => MaskNew(result.report) = MaskNew(prev[1].result.report)

\* two complete calls with the same filters that found games, the first of
\* which cached a file and the second none
C2_Witness ==
  /\ PrevCompleted /\ Completed /\ opts = prev[1].opts
  /\ result.report.foundGames
  /\ NewlyCached(prev[1].result.report) > 0
  /\ NewlyCached(result.report) = 0

----------------------------------------------------------------------------
(* C3 *)

\* C3 as stated: when cancel() came after k files were done, the call returns
\* having done exactly k files, with a cancelled event, a report counting the
\* qualifying ones among those k, and a cache document holding those k files'
\* decode results plus what was cached before.
C3_StopsAtRequest ==
  (Returned /\ hist.cancelAt # JsUndefined) =>
     /\ i = hist.cancelAt
     /\ CancelledCount(events) = 1
     /\ result.kind = "report"
     /\ ReflectsPrefix(result.report, hist.cancelAt, opts)
     /\ CacheHoldsPrefix(disk, hist.cancelAt)

\* C3 amended: when cancel() came after k files were done, the file whose turn
\* had begun is still processed, so the call returns having done exactly k + 1
\* files: the report counts the qualifying ones among those k + 1, the cache
\* document holds the decode results of those of the k + 1 that could be hashed
\* and decoded plus what was cached before, and the cancelled event is emitted
\* exactly when files remain (k + 1 < n).
C3_StopsOneFileLater ==
  (Returned /\ hist.cancelAt # JsUndefined) =>
     /\ i = hist.cancelAt + 1
     /\ CancelledCount(events) = (IF i < Len(files) THEN 1 ELSE 0)
     /\ result.kind = "report"
     /\ ReflectsPrefix(result.report, hist.cancelAt + 1, opts)
     /\ CacheHoldsPrefix(disk, hist.cancelAt + 1)

\* a call over two qualifying files, cancelled during the first one's turn,
\* that returned a report of one game with a previously cached entry kept
C3_Witness ==
  /\ Returned /\ hist.cancelAt = 0 /\ i = 1 /\ Len(files) = 2
  /\ Qualifies(files[1], opts) /\ Qualifies(files[2], opts)
  /\ CancelledCount(events) = 1
  /\ result.kind = "report" /\ result.report.summary.totalGames = 1
  /\ DOMAIN hist.loaded.results # {}
  /\ ~(DOMAIN disk.results \subseteq DOMAIN hist.loaded.results)

----------------------------------------------------------------------------
(* C4 *)

\* C4: once cancel() has set the flag during a call, that call processes at
\* most one more file: it is suspended only before that file, no later file
\* is started, and it returns with at most one file more than when the flag
\* was set.
C4_CancelLatency ==
  hist.cancelAt # JsUndefined =>
     /\ i <= hist.cancelAt + 1
     /\ pc = "await" => i = hist.cancelAt
     /\ hist.last.kind # "none" => hist.last.idx <= hist.cancelAt

\* a call over two files that was cancelled before its first file and
\* returned after that file
C4_Witness ==
  /\ Returned /\ hist.cancelAt = 0 /\ Len(files) = 2
  /\ hist.last.kind # "none" /\ hist.last.idx = 0 /\ i = 1

----------------------------------------------------------------------------
(* C5 *)

\* C5: cancel() calls made while no call is in flight have no effect on the
\* next call: it runs with the flag clear and, unless cancel() comes during
\* it, goes through every file and emits no cancelled event.
C5_IdleCancelNoEffect ==
  (runs > 0 /\ hist.idleBefore > 0 /\ hist.cancelAt = JsUndefined) =>
     /\ pc = "await" => ~cancelRequested
     /\ Returned => (i = Len(files) /\ CancelledCount(events) = 0)

\* a call preceded by two idle cancel() calls that went through two files
C5_Witness ==
  /\ Returned /\ hist.idleBefore = 2 /\ hist.cancelAt = JsUndefined
  /\ Len(files) = 2 /\ i = 2 /\ result.kind = "report"

----------------------------------------------------------------------------
(* C6 *)

\* C6: a call that is not cancelled emits one progress event per file,
\* {processed: j, total: n} for j = 1..n in this order, whatever became of
\* the file.
C6_ProgressPerFile ==
  (Returned /\ i = Len(files) /\ result.kind # "undefined") =>
     /\ ProgressCount(events) = Len(files)
     /\ \A j \in 1..Len(files) :
          \E k \in 1..Len(events) :
            IsProgress(events[k]) /\ events[k].processed = j /\ events[k].total = Len(files)

----------------------------------------------------------------------------
(* C9 *)

\* C9: a call given a self-character or opponent-character name that is not
\* in the character table finds no game.
C9_UnknownCharacterMatchesNothing ==
  (Returned /\ result.kind = "report"
     /\ (Unrecognized(opts.playerCharacter) \/ Unrecognized(opts.opponentCharacter)))
    => (~result.report.foundGames /\ result.report.summary.totalGames = 0)

----------------------------------------------------------------------------
(* C10 *)

\* the latest iteration was on a file that processSingleReplay or the stage
\* validation excludes
LastExcluded ==
  /\ hist.last.kind \notin {"none", "threw"}
  /\ ~Qualifies(files[hist.last.idx + 1], opts)

----------------------------------------------------------------------------
(* C14 *)

\* C14: a file on which hashing, decoding or classifying throws never ends
\* the call: a call that was not cancelled goes through every file of the
\* folder, and every call writes the cache once and returns a report.
C14_ExceptionsNeverAbort ==
  Returned =>
    /\ result.kind = "report"
    /\ writes = 1
    /\ hist.cancelAt = JsUndefined => i = Len(files)

\* a call whose first file made the decoder throw and whose second file was
\* counted in the report
C14_Witness ==
  /\ Returned /\ hist.cancelAt = JsUndefined
  /\ Len(files) = 2 /\ files[1] = "corrupt" /\ Qualifies(files[2], opts)
  /\ i = 2 /\ writes = 1
  /\ result.kind = "report" /\ result.report.summary.totalGames = 1

----------------------------------------------------------------------------
(* C15 *)

\* C15: after a call that was not cancelled, every file either counted as a
\* game or as skipped: the games and the skipped files add up to the files.
C15_EveryFileAccounted ==
  (Returned /\ result.kind = "report" /\ i = Len(files)) =>
    agg.total_games + agg.skippedCount = Len(files)

----------------------------------------------------------------------------
(* C16 *)

\* C16: the cache document is written once per call, on the step that ends
\* the loop and returns the report; no step that leaves the call suspended
\* before a file touches the document.
C16_WriteOnceAfterLoop ==
  [][/\ pc' = "await" => (disk' = disk /\ writes' = 0)
     /\ (pc' = "idle" /\ (pc = "await" \/ runs' # runs)) =>
          (writes' = 1 /\ result'.kind = "report")
     /\ disk' # disk => (pc' = "idle" /\ (pc = "await" \/ runs' # runs))]_vars

\* a cancelled call that wrote the document once, with the entry of the one
\* file it processed
C16_Witness ==
  /\ Returned /\ writes = 1
  /\ Len(files) = 2 /\ i = 1 /\ CancelledCount(events) = 1
  /\ Cacheable(files[1])
  /\ disk.readable /\ FileOf(files[1]).hash \in DOMAIN disk.results

----------------------------------------------------------------------------
(* C17 *)

\* C17: every entry of a cache document that can be loaded is in the document
\* after any step, unchanged, whether or not a file of the folder has that
\* content: a call adds entries and never removes or replaces one.
C17_CacheOnlyGrows ==
  [][(disk.readable /\ disk.hasResults) =>
       /\ disk'.readable /\ disk'.hasResults
       /\ \A h \in DOMAIN disk.results :
            h \in DOMAIN disk'.results /\ disk'.results[h] = disk.results[h]]_vars

\* a call that added an entry to a document holding an entry no file of the
\* folder has the content of
C17_Witness ==
  /\ Returned /\ writes = 1
  /\ 77 \in DOMAIN hist.loaded.results
  /\ \A j \in 1..Len(files) : FileOf(files[j]).hash # 77
  /\ 77 \in DOMAIN disk.results /\ disk.results[77] = hist.loaded.results[77]
  /\ DOMAIN disk.results # DOMAIN hist.loaded.results

----------------------------------------------------------------------------
(* The fold over longer folders: matches that differ in stage, in the
   characters of the pairing and in outcome, on a folder without a cache *)

MaxFold == 3

FoldKinds == {"win", "loss", "second-char", "unknown-char", "short"}

FoldOptions == {SelfOnly, IgnoreCara}

InitFold ==
  /\ files \in SeqsUpTo(FoldKinds, MaxFold)
  /\ disk = MissingDoc
  /\ fsMode = "ok"
  /\ cancelRequested = FALSE
  /\ pc = "idle"
  /\ opts = SelfOnly
  /\ i = 0
  /\ cache = EmptyCache
  /\ agg = InitAgg
  /\ events = <<>>
  /\ decodes = <<>>
  /\ writes = 0
  /\ hist = InitHist
  /\ result = NoResult
  /\ prev = <<>>
  /\ runs = 0
  /\ psrIn = NoCall
  /\ psrOut = NoCall

NextFold ==
  \/ \E o \in FoldOptions : StartAnalyze(o)
  \/ ProcessFile

SpecFold == InitFold /\ [][NextFold]_vars

\* vocabulary: the qualifying matches among the files the call went through
Facts == [j \in QualifyingIn(i, opts) |-> ResultOf(files[j], opts)]
FactStage(r) == StageAt(r.stage_num)
FactPair(r) == <<r.player_character_name, r.opponent_character_name>>
KnownPair(r) ==
  ~UnknownCharacter(r.player_character_name) /\ ~UnknownCharacter(r.opponent_character_name)

RECURSIVE SumSeconds(_, _)
SumSeconds(F, S) ==
  IF S = {} THEN 0
  ELSE LET j == CHOOSE k \in S : TRUE
       IN F[j].game_seconds + SumSeconds(F, S \ {j})

OnStage(F, name) == {j \in DOMAIN F : FactStage(F[j]) = name}
WithPair(F, pair) == {j \in DOMAIN F : KnownPair(F[j]) /\ FactPair(F[j]) = pair}
Won(F, S) == {j \in S : F[j].total_wins = 1}

\* the cells of the report's matchups, self character by self character, as
\* rows in the order the report holds them
RECURSIVE MatchupRows(_)
MatchupRows(m) ==
  IF m = <<>> THEN <<>>
  ELSE [k \in 1..Len(Head(m).cells) |->
          [char |-> Head(m).char, opponent |-> Head(m).cells[k].opponent,
           games |-> Head(m).cells[k].games, wins |-> Head(m).cells[k].wins]]
       \o MatchupRows(Tail(m))

DescendingByGames(rows) ==
  \A a \in 1..Len(rows) : \A b \in 1..Len(rows) : a < b => rows[a].games >= rows[b].games

\* the report rep counts the matches F
CountsFacts(rep, F, rows) ==
  /\ rep.foundGames
  /\ rep.summary.totalGames = Cardinality(DOMAIN F)
  /\ rep.summary.totalWins = Cardinality(Won(F, DOMAIN F))
  /\ {rep.stages[k].stage : k \in 1..Len(rep.stages)}
       = {FactStage(F[j]) : j \in DOMAIN F}
  /\ \A k \in 1..Len(rep.stages) :
       \E on \in {OnStage(F, rep.stages[k].stage)} :
         /\ rep.stages[k].games = Cardinality(on)
         /\ rep.stages[k].wins = Cardinality(Won(F, on))
         /\ rep.stages[k].playtime = secondsToHMS(60 * SumSeconds(F, on))
         /\ \A l \in 1..Len(rep.stages) :
              rep.stages[l].stage = rep.stages[k].stage => l = k
  /\ {<<rows[k].char, rows[k].opponent>> : k \in 1..Len(rows)}
       = {FactPair(F[j]) : j \in {l \in DOMAIN F : KnownPair(F[l])}}
  /\ \A k \in 1..Len(rows) :
       \E with \in {WithPair(F, <<rows[k].char, rows[k].opponent>>)} :
         /\ rows[k].games = Cardinality(with)
         /\ rows[k].wins = Cardinality(Won(F, with))
         /\ \A l \in 1..Len(rows) :
              (rows[l].char = rows[k].char /\ rows[l].opponent = rows[k].opponent)
                => l = k

\* C18: the report of a call counts the qualifying matches among the files it
\* went through: totalGames and totalWins; per stage one row with the number,
\* the wins and the summed whole seconds of the matches on it (so the stage
\* games add up to totalGames); per pair of known characters one matchup cell
\* with the number and the wins of the matches of that pair.
C18_ReportCountsQualifying ==
  (Returned /\ result.kind = "report") =>
    \E F \in {Facts} :
      IF DOMAIN F = {} THEN ~result.report.foundGames
      ELSE CountsFacts(result.report, F, MatchupRows(result.report.matchups))

\* a report over three matches on two stages and with two pairings, one
\* match won
C18_Witness ==
  /\ Returned /\ result.kind = "report" /\ i = 3
  /\ result.report.foundGames
  /\ result.report.summary.totalGames = 3 /\ result.report.summary.totalWins = 1
  /\ Len(result.report.stages) = 2
  /\ Len(MatchupRows(result.report.matchups)) = 2

\* C19: in a report with games, neither the stage rows nor the matchup rows
\* have a row with fewer games before a row with more.
C19_RowsSortedByGames ==
  (Returned /\ result.kind = "report" /\ result.report.foundGames) =>
    /\ DescendingByGames(result.report.stages)
    /\ DescendingByGames(MatchupRows(result.report.matchups))

\* the longest run of wins among the qualifying matches, in file order
RECURSIVE LongestWinRun(_, _, _, _)
LongestWinRun(F, j, current, best) ==
  IF j > i THEN best
  ELSE IF j \notin DOMAIN F THEN LongestWinRun(F, j + 1, current, best)
  ELSE IF F[j].total_wins = 1
       THEN LongestWinRun(F, j + 1, current + 1,
                          IF current + 1 > best THEN current + 1 ELSE best)
       ELSE LongestWinRun(F, j + 1, 0, best)

\* C20: bestWinStreak of the report is the longest run of consecutive wins
\* among the matches counted in totalGames, in the order of the files.
C20_BestWinStreak ==
  (Returned /\ result.kind = "report" /\ result.report.foundGames) =>
    \E F \in {Facts} : result.report.misc.bestWinStreak = LongestWinRun(F, 1, 0, 0)

----------------------------------------------------------------------------
(* The opponent breakdown of the report *)

\* vocabulary: the matches of F against the opponent with connect code code
Against(F, code) == {j \in DOMAIN F : F[j].opponent_code = code}

\* C21: in a report, every opponent faced in at least one match counted in
\* it has a row in the opponent breakdown, whose games and wins are the
\* number of matches played and won against that opponent.
C21_OpponentBreakdown ==
  (Returned /\ result.kind = "report") =>
    \E F \in {Facts} : \A j \in DOMAIN F :
      \E k \in 1..Len(result.report.opponents) :
        \E against \in {Against(F, F[j].opponent_code)} :
          /\ result.report.opponents[k].opponentCode = F[j].opponent_code
          /\ result.report.opponents[k].games = Cardinality(against)
          /\ result.report.opponents[k].wins = Cardinality(Won(F, against))

----------------------------------------------------------------------------
(* The two shapes of the report *)

\* C22: a report of a call in which no match qualified, cancelled or not,
\* has the no-games shape: foundGames false, the filters of the call echoed
\* as given, no stage, opponent or matchup rows, totalGames and totalWins 0.
\* Any other report has foundGames true and totalGames at least 1.
C22_TwoShapes ==
  (Returned /\ result.kind = "report") =>
    \E rep \in {result.report} :
      IF QualifyingIn(i, opts) = {}
      THEN /\ rep.foundGames = FALSE
           /\ rep.filters.playerTags = opts.playerTags
           /\ rep.filters.opponentTags = opts.opponentTags
           /\ rep.filters.playerCharacter = opts.playerCharacter
           /\ rep.filters.opponentCharacter = opts.opponentCharacter
           /\ rep.filters.ignoredOpponents = opts.ignoredOpponents
           /\ rep.stages = <<>> /\ rep.opponents = <<>> /\ rep.matchups = <<>>
           /\ rep.summary.totalGames = 0 /\ rep.summary.totalWins = 0
      ELSE rep.foundGames = TRUE /\ rep.summary.totalGames >= 1

\* a call cancelled after a file that did not qualify, files remaining
C22_Witness ==
  /\ Returned /\ result.kind = "report"
  /\ 0 < i /\ i < Len(files)
  /\ Len(events) > 0 /\ IsCancelled(events[Len(events)])
  /\ QualifyingIn(i, opts) = {}
  /\ ~result.report.foundGames

----------------------------------------------------------------------------
(* Calls on a folder that cannot be listed or cannot be written to *)

FsModes == {"ok", "nolist", "nowrite"}
FsKinds == {"win", "short", "corrupt"}
FsCorpora == SeqsUpTo(FsKinds, MaxFiles)

InitFs ==
  /\ files \in FsCorpora
  /\ disk \in InitialDocs
  /\ fsMode \in FsModes
  /\ cancelRequested = FALSE
  /\ pc = "idle"
  /\ opts = SelfOnly
  /\ i = 0
  /\ cache = EmptyCache
  /\ agg = InitAgg
  /\ events = <<>>
  /\ decodes = <<>>
  /\ writes = 0
  /\ hist = InitHist
  /\ result = NoResult
  /\ prev = <<>>
  /\ runs = 0
  /\ psrIn = NoCall
  /\ psrOut = NoCall

NextFs ==
  \/ StartAnalyze(SelfOnly)
  \/ cancelAnalysis
  \/ ProcessFile

SpecFs == InitFs /\ [][NextFs]_vars

\* C23: a call on a folder whose files cannot be listed, or whose cache
\* document cannot be written, fails as a whole: what the caller of the
\* handler receives is an error object carrying the message of the failure
\* and nothing of a report; the exception does not reach the host.
C23_CorpusFailureIsError ==
  (Returned /\ fsMode # "ok") =>
    /\ result.kind = "error"
    /\ DOMAIN result = {"kind", "error"}
    /\ result.error = (IF fsMode = "nolist" THEN "glob.sync failed"
                        ELSE "writeFileSync failed")

\* a call that aggregated a match and then could not write the cache
C23_Witness ==
  /\ Returned /\ fsMode = "nowrite"
  /\ i = Len(files) /\ agg.total_games > 0
  /\ result.kind = "error"

----------------------------------------------------------------------------
(* The rates of the report *)

\* vocabulary: rate is the string of wins / games * 100 to two decimals,
\* "0.00" for no games; the string is held as hundredths of a percent
IsRateOf(rate, wins, games) ==
  /\ rate.type = "string"
  /\ IF games = 0 THEN rate.hundredths = 0
     ELSE /\ 2 * (rate.hundredths * games - 10000 * wins) <= games
          /\ 2 * (10000 * wins - rate.hundredths * games) < games

StageRatesRight(rep) ==
  \A k \in 1..Len(rep.stages) :
    IsRateOf(rep.stages[k].winrate, rep.stages[k].wins, rep.stages[k].games)

\* C24: in every report the overall win rate is the two-decimal string of
\* totalWins / totalGames * 100 ("0.00" in a report without games), every
\* stage row's rate is that of its wins and games, and every matchup cell
\* carries the rate of its wins and games.
C24_RatesAreTwoDecimalStrings ==
  (Returned /\ result.kind = "report") =>
    \E rep \in {result.report} :
      /\ IsRateOf(rep.summary.winRate, rep.summary.totalWins, rep.summary.totalGames)
      /\ StageRatesRight(rep)
      /\ \A a \in 1..Len(rep.matchups) : \A b \in 1..Len(rep.matchups[a].cells) :
           \E cell \in {rep.matchups[a].cells[b]} :
             /\ "winrate" \in DOMAIN cell
             /\ IsRateOf(cell.winrate, cell.wins, cell.games)

----------------------------------------------------------------------------
(* matchesAnyTag on its own: one call per step, on the identity of a
   metadata player and a normalized list of wanted tags *)

\* a player whose names object is missing, and one whose names are both empty
Unnamed == [present |-> TRUE, hasNames |-> FALSE, netplay |-> <<>>, code |-> <<>>]
Blank == Named(<<>>, <<>>)

TagPlayers == Participants \cup {NoPlayer, Unnamed, Blank}

\* wanted lists: those of TagLists, part of a connect code only, more than a
\* whole connect code, one character, an entry no tag has before one some have
WantedLists ==
  TagLists \cup {<< <<"c", "#">> >>, << <<"a", "c", "#", "1", "b">> >>, << <<"#">> >>,
                 << <<"x">>, <<"b", "#">> >>}

TagCalls ==
  {[kind |-> "tags", identity |-> extractIdentity(player), wanted |-> wanted] :
     player \in TagPlayers, wanted \in WantedLists}

InitTag ==
  /\ files = <<>>
  /\ disk = MissingDoc
  /\ fsMode = "ok"
  /\ cancelRequested = FALSE
  /\ pc = "idle"
  /\ opts = SelfOnly
  /\ i = 0
  /\ cache = EmptyCache
  /\ agg = InitAgg
  /\ events = <<>>
  /\ decodes = <<>>
  /\ writes = 0
  /\ hist = InitHist
  /\ result = NoResult
  /\ prev = <<>>
  /\ runs = 0
  /\ psrIn \in TagCalls
  /\ psrOut = NoCall

CallMatchesAnyTag ==
  /\ psrOut = NoCall
  /\ psrOut' = [kind |-> "boolean",
                value |-> matchesAnyTag(psrIn.identity, psrIn.wanted)]
  /\ UNCHANGED <<files, disk, fsMode, cancelRequested, pc, opts, i, cache, agg, events,
                 decodes, writes, hist, result, prev, runs, psrIn>>

NextTag == CallMatchesAnyTag

SpecTag == InitTag /\ [][NextTag]_vars

\* vocabulary: the tags of an identity, as a set; sub occurs in s
TagsOf(identity) ==
  IF identity.hasTags THEN {identity.tagLower[k] : k \in 1..Len(identity.tagLower)}
  ELSE {}
OccursIn(sub, s) ==
  \E from \in 1..(Len(s) + 1) : \E to \in 0..Len(s) : SubSeq(s, from, to) = sub

\* C25: with an empty wanted list matchesAnyTag is true of every identity,
\* also of one without tags; with a non-empty one it is true exactly when
\* some tag of the identity has some wanted entry as a substring, hence
\* false of an identity without tags.
C25_MatchesAnyTag ==
  (psrIn.kind = "tags" /\ psrOut # NoCall) =>
    psrOut.value =
      (\/ psrIn.wanted = <<>>
       \/ \E tag \in TagsOf(psrIn.identity) : \E k \in 1..Len(psrIn.wanted) :
            OccursIn(psrIn.wanted[k], tag))

\* "c#" is found inside the connect code "ac#1" of a player it is no whole tag of
C25_Witness ==
  /\ psrIn.kind = "tags" /\ psrOut # NoCall
  /\ psrIn.wanted = << <<"c", "#">> >>
  /\ psrIn.identity.connectCode = <<"A", "C", "#", "1">>
  /\ psrOut.value = TRUE

----------------------------------------------------------------------------
(* Two calls of analyze() in flight at once, each on a folder of its own:
   every per-call variable holds one value per call, cancelRequested is the
   one flag of the module *)

TwoRuns == {"A", "B"}
TwoKinds == {"win", "short"}
TwoCorpora == SeqsUpTo(TwoKinds, MaxFiles)

InitTwo ==
  /\ files \in [TwoRuns -> TwoCorpora]
  /\ disk = [r \in TwoRuns |-> MissingDoc]
  /\ fsMode = "ok"
  /\ cancelRequested = FALSE
  /\ pc = [r \in TwoRuns |-> "idle"]
  /\ opts = [r \in TwoRuns |-> SelfOnly]
  /\ i = [r \in TwoRuns |-> 0]
  /\ cache = [r \in TwoRuns |-> EmptyCache]
  /\ agg = [r \in TwoRuns |-> InitAgg]
  /\ events = [r \in TwoRuns |-> <<>>]
  /\ decodes = <<>>
  /\ writes = 0
  /\ hist = [started |-> [r \in TwoRuns |-> FALSE], aimed |-> [r \in TwoRuns |-> FALSE]]
  /\ result = [r \in TwoRuns |-> NoResult]
  /\ prev = <<>>
  /\ runs = 0
  /\ psrIn = NoCall
  /\ psrOut = NoCall

\* the end of call r, from the statement after the loop to the handler's value
FinishRun(r, c, a, ev, idx) ==
  /\ cancelRequested' = FALSE
  /\ pc' = [pc EXCEPT ![r] = "idle"]
  /\ cache' = [cache EXCEPT ![r] = c]
  /\ agg' = [agg EXCEPT ![r] = a]
  /\ events' = [events EXCEPT ![r] = ev]
  /\ i' = [i EXCEPT ![r] = idx]
  /\ disk' = [disk EXCEPT ![r] = writeCache(c, join(Normalize(opts[r]).wantedPlayersLower,
                                                    ","))]
  /\ result' = [result EXCEPT ![r] =
                  AnalyzeHandler(Returns([kind |-> "report",
                                          report |-> BuildReport(opts[r], a, Len(files[r]))]))]

\* call r up to its first suspension (or to its end on an empty folder)
StartRun(r) ==
  /\ pc[r] = "idle" /\ ~hist.started[r]
  /\ hist' = [hist EXCEPT !.started[r] = TRUE]
  /\ UNCHANGED <<files, fsMode, opts, decodes, writes, prev, runs, psrIn, psrOut>>
  /\ IF Len(files[r]) = 0 \/ CancelCheck(ResetAtStart(cancelRequested))
     THEN FinishRun(r, loadCache(disk[r]), InitAgg,
                    IF Len(files[r]) > 0 /\ win THEN <<CancelledEvent>> ELSE <<>>, 0)
     ELSE /\ cancelRequested' = ResetAtStart(cancelRequested)
          /\ pc' = [pc EXCEPT ![r] = "await"]
          /\ cache' = [cache EXCEPT ![r] = loadCache(disk[r])]
          /\ UNCHANGED <<disk, i, agg, events, result>>

\* call r from the end of an await to the next one, or to its end
StepRun(r) ==
  /\ pc[r] = "await"
  /\ UNCHANGED <<files, fsMode, opts, decodes, writes, hist, prev, runs, psrIn, psrOut>>
  /\ \E b \in {LoopBody(FileOf(files[r][i[r] + 1]), i[r], Len(files[r]), cache[r], agg[r],
                         Normalize(opts[r]))} :
       IF b.exit = "return"
       THEN /\ pc' = [pc EXCEPT ![r] = "idle"]
            /\ result' = [result EXCEPT ![r] = AnalyzeHandler(Returns([kind |-> "undefined"]))]
            /\ cache' = [cache EXCEPT ![r] = b.cache]
            /\ agg' = [agg EXCEPT ![r] = b.agg]
            /\ events' = [events EXCEPT ![r] = @ \o b.emitted]
            /\ UNCHANGED <<disk, cancelRequested, i>>
       ELSE IF i[r] + 1 < Len(files[r]) /\ ~CancelCheck(cancelRequested)
       THEN /\ i' = [i EXCEPT ![r] = @ + 1]
            /\ cache' = [cache EXCEPT ![r] = b.cache]
            /\ agg' = [agg EXCEPT ![r] = b.agg]
            /\ events' = [events EXCEPT ![r] = @ \o b.emitted]
            /\ UNCHANGED <<disk, cancelRequested, pc, result>>
       ELSE FinishRun(r, b.cache, b.agg,
                      events[r] \o b.emitted
                        \o (IF i[r] + 1 < Len(files[r]) /\ win
                            THEN <<CancelledEvent>> ELSE <<>>),
                      i[r] + 1)

\* the cancel-analysis handler; hist.aimed marks the calls that are in
\* flight with a test of the flag still ahead of them
CancelShared ==
  /\ cancelRequested' = TRUE
  /\ hist' = [hist EXCEPT !.aimed =
                [r \in TwoRuns |->
                   hist.aimed[r] \/ (pc[r] = "await" /\ i[r] + 1 < Len(files[r]))]]
  /\ UNCHANGED <<files, disk, fsMode, pc, opts, i, cache, agg, events, decodes, writes,
                 result, prev, runs, psrIn, psrOut>>

NextTwo ==
  \/ \E r \in TwoRuns : StartRun(r)
  \/ \E r \in TwoRuns : StepRun(r)
  \/ CancelShared

SpecTwo == InitTwo /\ [][NextTwo]_vars

\* C26: a call that was in flight with a test of the flag ahead of it when
\* cancel() was invoked ends with a cancelled event before its last file,
\* whatever other call started or ended in between.
C26_CancelReachesItsRun ==
  \A r \in TwoRuns :
    (pc[r] = "idle" /\ hist.aimed[r]) =>
      /\ events[r] # <<>> /\ IsCancelled(events[r][Len(events[r])])
      /\ i[r] < Len(files[r])

----------------------------------------------------------------------------
(* The second test of the stage *)

\* vocabulary: the last file the call went through reached the aggregation
ReachedAggregation == hist.last.kind \in {"qualified", "unknown-character", "return"}

\* C27: whenever a file's result reaches the aggregation, its stage id is
\* neither null nor undefined nor NaN and names a stage of the table, so the
\* second test of the stage never takes its `return`: no call ends without a
\* value and without writing the cache.
C27_SecondStageCheckUnreachable ==
  /\ hist.last.kind # "return"
  /\ result.kind # "undefined"
  /\ (pc = "await" \/ Returned) /\ ReachedAggregation =>
       \E r \in {ResultOf(files[hist.last.idx + 1], opts)} :
         /\ r.kind = "data"
         /\ r.stage_num \notin {JsNull, JsUndefined, JsNaN}
         /\ StageAt(r.stage_num) \notin {"null", "undefined"}

\* a file with a stage id off the table was skipped by the first test and
\* the next file reached the aggregation
C27_Witness ==
  /\ Returned /\ i = 2
  /\ files[1] = "bad-stage"
  /\ agg.skippedCount = 1
  /\ hist.last.kind = "qualified"

----------------------------------------------------------------------------
(* Files with the same content within one call *)

\* vocabulary: the content hash of the k-th file the call handed to the
\* decoder; the hashes the call added to the cache among the first m files
DecodedHash(k) == FileOf(files[decodes[k] + 1]).hash
DecodedFile(k) == FileOf(files[decodes[k] + 1])
AddedHashes(m) ==
  {FileOf(files[j]).hash : j \in {k \in 1..m : Cacheable(files[k])}}
    \ DOMAIN hist.loaded.results

\* C28 (as stated): within one call no two files handed to the decoder have
\* the same content hash.
C28_DecodeOncePerHash ==
  \A a \in 1..Len(decodes) : \A b \in 1..Len(decodes) :
    (a # b /\ DecodedHash(a) # JsNull) => DecodedHash(a) # DecodedHash(b)

\* C28 (amended): within one call two files handed to the decoder have the
\* same content hash only if the decoder threw on them; the count of newly
\* cached files is the number of distinct hashes the call added to the
\* cache, and every qualifying file is counted as a match of its own, a copy
\* of an earlier file included.
C28_DecodeOncePerDecodedHash ==
  /\ \A a \in 1..Len(decodes) : \A b \in 1..Len(decodes) :
       (a # b /\ DecodedHash(a) # JsNull /\ DecodedHash(a) = DecodedHash(b))
         => ~DecodedFile(a).decodeOk /\ ~DecodedFile(b).decodeOk
  /\ (pc = "await" \/ (Returned /\ result.kind = "report")) =>
       /\ agg.new_replays = Cardinality(AddedHashes(i))
       /\ agg.total_games = Cardinality(QualifyingIn(i, opts))

\* a call on two copies of one qualifying replay, not in the cache before:
\* one decode, one newly cached file, two matches
C28_Witness ==
  /\ Completed /\ Len(files) = 2
  /\ files[1] = files[2] /\ Qualifies(files[1], opts)
  /\ decodes = <<0>>
  /\ NewlyCached(result.report) = 1
  /\ result.report.summary.totalGames = 2

----------------------------------------------------------------------------
(* Two calls with filters of their own, each on a copy of one folder with
   one cache document, neither cancelled *)

InitPair ==
  /\ files \in {[r \in TwoRuns |-> corpus] : corpus \in Corpora}
  /\ disk \in {[r \in TwoRuns |-> doc] : doc \in InitialDocs}
  /\ fsMode = "ok"
  /\ cancelRequested = FALSE
  /\ pc = [r \in TwoRuns |-> "idle"]
  /\ opts \in [TwoRuns -> OptionSet]
  /\ i = [r \in TwoRuns |-> 0]
  /\ cache = [r \in TwoRuns |-> EmptyCache]
  /\ agg = [r \in TwoRuns |-> InitAgg]
  /\ events = [r \in TwoRuns |-> <<>>]
  /\ decodes = <<>>
  /\ writes = 0
  /\ hist = [started |-> [r \in TwoRuns |-> FALSE], aimed |-> [r \in TwoRuns |-> FALSE]]
  /\ result = [r \in TwoRuns |-> NoResult]
  /\ prev = <<>>
  /\ runs = 0
  /\ psrIn = NoCall
  /\ psrOut = NoCall

NextPair ==
  \/ \E r \in TwoRuns : StartRun(r)
  \/ \E r \in TwoRuns : StepRun(r)

SpecPair == InitPair /\ [][NextPair]_vars

\* vocabulary: both calls have returned; a cache document without its
\* user_player_arg field
BothReturned == \A r \in TwoRuns : hist.started[r] /\ pc[r] = "idle"
WithoutSelfFilter(doc) == [k \in DOMAIN doc \ {"user_player_arg"} |-> doc[k]]

\* C29: two calls on the same folder and the same cache document, with
\* whatever filters and neither cancelled, write cache documents with the
\* same hashes and the same entries, equal in every field but the echo of
\* the self filter.
C29_CacheIndependentOfFilters ==
  BothReturned =>
    /\ DOMAIN disk["A"].results = DOMAIN disk["B"].results
    /\ \A h \in DOMAIN disk["A"].results : disk["A"].results[h] = disk["B"].results[h]
    /\ WithoutSelfFilter(disk["A"]) = WithoutSelfFilter(disk["B"])

\* one call found a match and the other, with other filters, none; both
\* wrote an entry the document did not have, under different self filters
C29_Witness ==
  /\ BothReturned
  /\ result["A"].report.foundGames /\ ~result["B"].report.foundGames
  /\ agg["A"].new_replays > 0 /\ agg["B"].new_replays > 0
  /\ disk["A"].user_player_arg # disk["B"].user_player_arg

----------------------------------------------------------------------------
(* The order of the progress events of a call *)

\* vocabulary: the positions of the {processed, total} events and of the
\* {cancelled} events among the events of the call
ProgressAt(ev) == {k \in 1..Len(ev) : IsProgress(ev[k])}
CancelledAt(ev) == {k \in 1..Len(ev) : IsCancelled(ev[k])}

EventsOrdered ==
  \E ev \in {events} :
    /\ \A k \in ProgressAt(ev) :
         /\ 1 <= ev[k].processed /\ ev[k].processed <= ev[k].total
         /\ ev[k].total = Len(files)
         /\ \A l \in ProgressAt(ev) : k < l => ev[k].processed < ev[l].processed
    /\ Cardinality(CancelledAt(ev)) <= 1
    /\ \A k \in CancelledAt(ev) :
         /\ pc = "idle" /\ i < Len(files)
         /\ \A l \in ProgressAt(ev) : l < k

\* within a call events are only added, and none after a {cancelled} event
EventsGrow ==
  runs' = runs =>
    /\ Len(events') >= Len(events) /\ SubSeq(events', 1, Len(events)) = events
    /\ CancelledAt(events) # {} => events' = events

\* C30: the {processed, total} events of a call have strictly increasing
\* processed values, each from 1 to total; a {cancelled} event is emitted
\* at most once, only by a call whose loop stopped before its last file,
\* and no event of the call follows it.
C30_ProgressOrder == []EventsOrdered /\ [][EventsGrow]_vars

\* a call cancelled after its first file: one {processed: 1} event, then
\* the {cancelled} event
C30_Witness ==
  /\ Returned /\ Len(files) = 2 /\ i = 1
  /\ ProgressAt(events) # {} /\ CancelledAt(events) = {Len(events)}

====
